---------------------------- MODULE Spec2Model ----------------------------
(***************************************************************************)
(* JzSE cross-region synchronisation core: vector clocks of FileMetadata,  *)
(* the conflict resolver's Detect and Resolve, the region file service,    *)
(* the region side ChangeQueue and the sync Agent that drains it, the      *)
(* coordinator's metadata manager and sync engine, the region registry.    *)
(*                                                                         *)
(* Each component has its own specification (SpecClock, SpecQueue,         *)
(* SpecConc, SpecAgent, SpecAgentLive, SpecCoord, SpecUpd, SpecRes,        *)
(* SpecReg, SpecLoops, SpecLoopsLive, SpecBcast, SpecSnap); the variables  *)
(* of the other components stay at their constructed value.  SpecDereg     *)
(* runs the registry and the sync engine of one coordinator together,      *)
(* SpecRecon a region's sync agent and the coordinator's sync engine.      *)
(***************************************************************************)
EXTENDS Integers, Sequences, FiniteSets, TLC

VARIABLES
    meta,       \* the FileMetadata the clock methods are called on (receiver m)
    remote,     \* a second metadata version (Detect's remote, MergeClock's source)
    store,      \* the region's metadata store: file id -> FileMetadata or NoMeta
    last,       \* the last call of the file/clock component: its name, arguments, result
    items,      \* ChangeQueue.items: the buffered events, oldest first
    pushed,     \* history: the events Push accepted, in push order
    popped,     \* history: the events Pop and PopN returned, in call order
    cleared,    \* history: the events Clear discarded
    qlast,      \* the last ChangeQueue call: its name, argument, result, items before
    prev,       \* the call before qlast: its name, result, Len before
    mu,         \* ChangeQueue.mu: the goroutine holding it, or Unlocked
    gpc,        \* per goroutine: where it is in its ChangeQueue call
    gloc,       \* per goroutine: the call it makes and what it read of q.items
    calls,      \* number of Push calls begun by the goroutines
    cfg,        \* Agent.config: Mode, MaxRetries, BatchSize
    apc,        \* the agent's delivery goroutine: new, loop, sync, exited
    batch,      \* the events popped and not yet transmitted, the first in transmission
    delivered,  \* history: the events syncEvent transmitted successfully
    reported,   \* history: the events whose loss the agent logged as an error
    accepted,   \* history: the ids of the events QueueChange created
    stopped,    \* Agent.stopCh is closed
    sent,       \* history: per event id, the number of syncEvent calls made for it
    alast,      \* the last handleSyncError call: the event, the queue before and after
    gstore,     \* EtcdManager.store: file id -> GlobalFileMetadata or NoMeta
    regions,    \* Engine.regions: region id -> its RegionState, or NotRegistered
    strategy,   \* Engine.config.DefaultStrategy
    nchanges,   \* number of HandleChange calls made (the next event's id)
    clast,      \* the last coordinator call: its name, arguments and result
    returned,   \* history: per region, the ids GetPendingChanges returned
    twice,      \* history: GetPendingChanges returned an id it had returned before
    everReg,    \* history: the file ids Register stored
    upc,        \* per goroutine: where it is in its EtcdManager.Update call
    uloc,       \* per goroutine: the metadata it passes, and the error it got
    conflict,   \* the Conflict that Resolve is called on
    rdefault,   \* Resolver.defaultStrategy
    rlast,      \* the last Resolve call: its strategy, its Resolution, the conflict before
    nres,       \* number of Resolutions that Resolve returned
    reg,        \* Registry.regions: region id -> RegionInfo, or NoRegion
    now,        \* time.Now(), in minutes
    glast,      \* the last registry call: its name, region id and error
    loop,       \* which background loop function the component runs
    lpc,        \* the loop goroutine's position: new, select, work, exited
    stopCh,     \* TRUE once close(stopCh) has run
    ctxDone,    \* TRUE once the context passed to Start is cancelled
    tick,       \* TRUE while a tick waits in ticker.C
    wg,         \* the WaitGroup counter
    spc,        \* the position of the Stop call: idle, wait, returned
    bpc,        \* per goroutine: its position in a concurrent HandleChange
    bloc,       \* per goroutine: the event and locals of its HandleChange
    rlock,      \* Engine.mu: the goroutines that hold the read lock
    refs        \* per event id: what the event's Metadata and VectorClock
                \* fields refer to, and their values when it was created

varsClock == <<meta, remote, store, last>>
varsQueue == <<items, pushed, popped, cleared, qlast, prev>>
varsConc == <<mu, gpc, gloc, calls>>
varsAgent == <<cfg, apc, batch, delivered, reported, accepted, stopped, sent,
               alast>>
varsCoord == <<gstore, regions, strategy, nchanges, clast, returned,
               twice, everReg>>
varsUpd == <<upc, uloc>>
varsRes == <<conflict, rdefault, rlast, nres>>
varsReg == <<reg, now, glast>>
varsLoop == <<loop, lpc, stopCh, ctxDone, tick, wg, spc>>
varsBcast == <<bpc, bloc, rlock>>
vars == <<varsClock, varsQueue, varsConc, varsAgent, varsCoord, varsUpd,
          varsRes, varsReg, varsLoop, varsBcast, refs>>

\* what the actions of one component leave alone
restClock == <<varsQueue, varsConc, varsAgent, varsCoord, varsUpd, varsRes,
               varsReg, varsLoop, varsBcast, refs>>
restQueue == <<varsClock, varsConc, varsAgent, varsCoord, varsUpd, varsRes,
               varsReg, varsLoop, varsBcast, refs>>
restConc == <<varsClock, qlast, prev, varsAgent, varsCoord, varsUpd,
              varsRes, varsReg, varsLoop, varsBcast, refs>>
restAgent == <<varsClock, pushed, popped, cleared, qlast, prev, varsConc,
               varsCoord, varsUpd, varsRes, varsReg, varsLoop, varsBcast, refs>>
restCoord == <<varsClock, varsQueue, varsConc, varsAgent, varsUpd, varsRes,
               varsReg, varsLoop, varsBcast, refs>>
restUpd == <<varsClock, varsQueue, varsConc, varsAgent, regions, strategy,
             nchanges, clast, returned, twice, everReg, varsRes, varsReg, varsLoop, varsBcast, refs>>
restRes == <<varsClock, varsQueue, varsConc, varsAgent, varsCoord, varsUpd,
             varsReg, varsLoop, varsBcast, refs>>
restReg == <<varsClock, varsQueue, varsConc, varsAgent, varsCoord, varsUpd,
             varsRes, varsLoop, varsBcast, refs>>
restLoop == <<varsClock, varsQueue, varsConc, varsAgent, varsCoord, varsUpd,
              varsRes, varsReg, varsBcast, refs>>
restBcast == <<varsClock, varsQueue, varsConc, varsAgent, strategy, nchanges,
               clast, twice, everReg, varsUpd, varsRes, varsReg, varsLoop,
               refs>>
restSnap == <<varsClock, pushed, popped, cleared, qlast, prev, varsConc,
              varsCoord, varsUpd, varsRes, varsReg, varsLoop, varsBcast>>

--------------------------------------------------------------------------
(* Bounds of the model *)

\* largest counter a vector clock entry is drawn from / incremented to
MaxCounter == 2
\* capacity of the ChangeQueue under test (NewChangeQueue(maxSize))
maxSize == 2
\* number of Push calls that are accepted in one run of the queue
MaxPushes == 4
\* largest n PopN is called with
MaxPopN == 3
\* number of events QueueChange creates in one run of the agent
MaxEvents == 3
\* largest configured MaxRetries
MaxRetriesCfg == 2
\* largest configured BatchSize
MaxBatchCfg == 2
\* number of HandleChange calls in one run of the coordinator
MaxChanges == 2
\* latest UpdatedAt of a version in a conflict (earliest is 0)
MaxTime == 2
\* number of Resolve calls made on the conflict
MaxResolves == 2
\* latest time the registry's clock reaches, in minutes
MaxNow == 6

\* replica (region) identifiers that may appear as vector clock keys
Replicas == {"ra", "rb"}
\* file identifiers (uuid.New() draws a fresh one of these)
FileIDs == {"f1", "f2"}
\* the region this file service runs in (FileService.regionID)
regionID == "ra"
\* region identifiers known to the coordinator's sync engine
Regions == {"ra", "rb", "rc"}

--------------------------------------------------------------------------
(* FileMetadata and its vector clock (region metadata package) *)

\* ClockRelation: const ( ClockBefore = iota; ClockAfter; ClockEqual; ClockConcurrent )
ClockBefore == 0
ClockAfter == 1
ClockEqual == 2
ClockConcurrent == 3

LocalStatePresent == "present"
LocalStatePending == "pending"
LocalStateDeleted == "deleted"
SyncStateSynced == "synced"
SyncStatePending == "pending"
SyncStateConflict == "conflict"

\* A Go map[string]uint64: the nil map, or a map with some of the keys set
\* (a key may be present with the value 0).
EmptyMap == [k \in {} |-> 0]
NilClock == [isNil |-> TRUE, m |-> EmptyMap]
MakeClock(f) == [isNil |-> FALSE, m |-> f]
Clocks ==
    {NilClock} \cup
    {MakeClock(f) : f \in UNION {[D -> 0..MaxCounter] : D \in SUBSET Replicas}}

\* m[k] of a Go map: the zero value when the key is missing or the map is nil
Get(vc, k) == IF (~vc.isNil) /\ k \in DOMAIN vc.m THEN vc.m[k] ELSE 0

\* m[k] = v of a Go map
Put(f, k, v) == [x \in (DOMAIN f) \cup {k} |-> IF x = k THEN v ELSE f[x]]

\* the struct FileMetadata, the fields the synchronisation core reads
FileMetadata(id, version, vc, localState, syncState) ==
    [ID |-> id, Version |-> version, VectorClock |-> vc,
     LocalState |-> localState, SyncState |-> syncState]

\* NewFileMetadata(id, name, path): Version 1, an empty non-nil clock
NewFileMetadata(id) ==
    FileMetadata(id, 1, MakeClock(EmptyMap), LocalStatePresent, SyncStatePending)

\* a mutation of IncrementClock that forgets Version
IncrementClockNoVersion(m, r) ==
    LET vc == IF m.VectorClock.isNil THEN MakeClock(EmptyMap) ELSE m.VectorClock
    IN  [m EXCEPT !.VectorClock = MakeClock(Put(vc.m, r, Get(vc, r) + 1))]

\* func (m *FileMetadata) IncrementClock(regionID string)
IncrementClockOp(m, r) ==
    LET vc == IF m.VectorClock.isNil THEN MakeClock(EmptyMap) ELSE m.VectorClock
    IN  [m EXCEPT !.VectorClock = MakeClock(Put(vc.m, r, Get(vc, r) + 1)),
                  !.Version = @ + 1]

\* a mutation of MergeClock that overwrites instead of keeping the maximum
MergeClockOverwrite(m, other) ==
    LET vc == IF m.VectorClock.isNil THEN MakeClock(EmptyMap) ELSE m.VectorClock
        keys == IF other.isNil THEN {} ELSE DOMAIN other.m
    IN  [m EXCEPT !.VectorClock =
            MakeClock([k \in (DOMAIN vc.m) \cup keys |->
                          IF k \in keys THEN other.m[k] ELSE vc.m[k]])]

\* func (m *FileMetadata) MergeClock(other map[string]uint64)
\* (ranging over a nil map visits nothing; every key is written independently
\* of the others, so the iteration order does not matter)
MergeClockOp(m, other) ==
    LET vc == IF m.VectorClock.isNil THEN MakeClock(EmptyMap) ELSE m.VectorClock
        raised == IF other.isNil THEN {}
                  ELSE {k \in DOMAIN other.m : Get(vc, k) < other.m[k]}
    IN  [m EXCEPT !.VectorClock =
            MakeClock([k \in (DOMAIN vc.m) \cup raised |->
                          IF k \in raised THEN other.m[k] ELSE vc.m[k]])]

\* a mutation of CompareClock that only visits the receiver's keys
CompareClockOwnKeys(vc, other) ==
    IF vc.isNil /\ other.isNil THEN ClockEqual
    ELSE IF vc.isNil THEN ClockBefore
    ELSE IF other.isNil THEN ClockAfter
    ELSE LET allKeys == DOMAIN vc.m
             lessThan == \E k \in allKeys : Get(vc, k) < Get(other, k)
             greaterThan == \E k \in allKeys : Get(vc, k) > Get(other, k)
         IN  IF lessThan /\ greaterThan THEN ClockConcurrent
             ELSE IF lessThan THEN ClockBefore
             ELSE IF greaterThan THEN ClockAfter
             ELSE ClockEqual

\* a mutation of CompareClock without the nil checks (nil read as empty)
CompareClockNilAsEmpty(vc, other) ==
    LET lessThan == \E k \in Replicas : Get(vc, k) < Get(other, k)
        greaterThan == \E k \in Replicas : Get(vc, k) > Get(other, k)
    IN  IF lessThan /\ greaterThan THEN ClockConcurrent
        ELSE IF lessThan THEN ClockBefore
        ELSE IF greaterThan THEN ClockAfter
        ELSE ClockEqual

\* func (m *FileMetadata) CompareClock(other map[string]uint64) ClockRelation
\* (vc is m.VectorClock)
CompareClock(vc, other) ==
    IF vc.isNil /\ other.isNil THEN ClockEqual
    ELSE IF vc.isNil THEN ClockBefore
    ELSE IF other.isNil THEN ClockAfter
    ELSE LET allKeys == (DOMAIN vc.m) \cup (DOMAIN other.m)
             lessThan == \E k \in allKeys : Get(vc, k) < Get(other, k)
             greaterThan == \E k \in allKeys : Get(vc, k) > Get(other, k)
         IN  IF lessThan /\ greaterThan THEN ClockConcurrent
             ELSE IF lessThan THEN ClockBefore
             ELSE IF greaterThan THEN ClockAfter
             ELSE ClockEqual

--------------------------------------------------------------------------
(* Conflict resolver: Detect *)

\* the nil *Conflict
NilConflict == [isNil |-> TRUE]

\* a mutation of Detect that also reports causally ordered (Before) pairs
DetectAlsoBefore(local, rem) ==
    LET relation == CompareClock(local.VectorClock, rem.VectorClock)
    IN  IF relation # ClockConcurrent /\ relation # ClockBefore THEN NilConflict
        ELSE [isNil |-> FALSE, FileID |-> local.ID, LocalVersion |-> local,
              RemoteVersion |-> rem, Status |-> "pending"]

\* func (r *Resolver) Detect(local, remote *metadata.GlobalFileMetadata) *Conflict
Detect(local, rem) ==
    LET relation == CompareClock(local.VectorClock, rem.VectorClock)
    IN  IF relation # ClockConcurrent THEN NilConflict
        ELSE [isNil |-> FALSE, FileID |-> local.ID, LocalVersion |-> local,
              RemoteVersion |-> rem, Status |-> "pending"]

--------------------------------------------------------------------------
(* Region file service: Upload and Delete on the metadata store *)

\* no record under this file id (Store.Get returns ErrNotFound)
NoMeta == [isNil |-> TRUE]

\* the metadata part of FileService.Upload once storage.Put succeeded:
\* NewFileMetadata, OriginRegion = regionID, IncrementClock(regionID)
UploadMeta(fileID) == IncrementClockOp(NewFileMetadata(fileID), regionID)

\* the metadata part of FileService.Delete: tombstone, pending, IncrementClock
DeleteMeta(m) ==
    IncrementClockOp([m EXCEPT !.LocalState = LocalStateDeleted,
                               !.SyncState = SyncStatePending], regionID)

--------------------------------------------------------------------------
(* The file/clock component as a state machine *)

NoCall == [op |-> "none"]

\* the file/clock component before any call, with no record to work on
IdleClock ==
    /\ meta = NewFileMetadata("f1")
    /\ remote = NewFileMetadata("f1")
    /\ store = [f \in FileIDs |-> NoMeta]
    /\ last = NoCall

InitClock ==
    /\ meta \in {FileMetadata("f1", 1, vc, LocalStatePresent, SyncStatePending) :
                    vc \in Clocks}
    /\ remote \in {FileMetadata(id, 1, vc, LocalStatePresent, SyncStateSynced) :
                    id \in FileIDs, vc \in Clocks}
    /\ store = [f \in FileIDs |-> NoMeta]
    /\ last = NoCall

\* meta.IncrementClock(r)
IncrementClock(r) ==
    /\ Get(meta.VectorClock, r) < MaxCounter
    /\ meta' = IncrementClockOp(meta, r)
    /\ last' = [op |-> "IncrementClock", pre |-> meta, region |-> r]
    /\ UNCHANGED <<remote, store, restClock>>

\* meta.MergeClock(remote.VectorClock), or meta.MergeClock(meta.VectorClock)
MergeClock(self) ==
    LET other == IF self THEN meta.VectorClock ELSE remote.VectorClock
    IN  /\ meta' = MergeClockOp(meta, other)
        /\ last' = [op |-> "MergeClock", pre |-> meta, other |-> other]
        /\ UNCHANGED <<remote, store, restClock>>

\* meta.CompareClock(remote.VectorClock), or remote.CompareClock(meta.VectorClock)
CompareClockCall(swap) ==
    LET a == IF swap THEN remote.VectorClock ELSE meta.VectorClock
        b == IF swap THEN meta.VectorClock ELSE remote.VectorClock
    IN  /\ last' = [op |-> "CompareClock", a |-> a, b |-> b,
                    out |-> CompareClock(a, b)]
        /\ UNCHANGED <<meta, remote, store, restClock>>

\* resolver.Detect(meta, remote)
DetectCall ==
    /\ last' = [op |-> "Detect", local |-> meta, remote |-> remote,
                out |-> Detect(meta, remote)]
    /\ UNCHANGED <<meta, remote, store, restClock>>

\* FileService.Upload: uuid.New() is a file id not used before; storage.Put
\* and metadata.Save either both succeed (ok) or the upload fails and the
\* store keeps no record
Upload(fileID, ok) ==
    /\ store[fileID] = NoMeta
    /\ store' = IF ok THEN [store EXCEPT ![fileID] = UploadMeta(fileID)] ELSE store
    /\ last' = [op |-> "Upload", fileID |-> fileID, ok |-> ok, pre |-> store[fileID]]
    /\ UNCHANGED <<meta, remote, restClock>>

\* FileService.Delete: metadata.Get, storage.Delete, tombstone +
\* IncrementClock, metadata.Save; a failing Get, storage.Delete or Save
\* (ok = FALSE) returns the error and the stored record is as before
Delete(fileID, ok) ==
    /\ \/ ~ok
       \/ /\ store[fileID] # NoMeta
          /\ Get(store[fileID].VectorClock, regionID) < MaxCounter
    /\ store' = IF ok THEN [store EXCEPT ![fileID] = DeleteMeta(store[fileID])]
                ELSE store
    /\ last' = [op |-> "Delete", fileID |-> fileID, ok |-> ok, pre |-> store[fileID]]
    /\ UNCHANGED <<meta, remote, restClock>>

NextClock ==
    \/ \E r \in Replicas : IncrementClock(r)
    \/ \E self \in BOOLEAN : MergeClock(self)
    \/ \E swap \in BOOLEAN : CompareClockCall(swap)
    \/ DetectCall
    \/ \E f \in FileIDs, ok \in BOOLEAN : Upload(f, ok)
    \/ \E f \in FileIDs, ok \in BOOLEAN : Delete(f, ok)


--------------------------------------------------------------------------
(* ChangeQueue (region sync package) *)

ChangeTypeCreate == "CREATE"
ChangeTypeUpdate == "UPDATE"
ChangeTypeDelete == "DELETE"

\* errors.ErrQueueFull, and the nil error
ErrQueueFull == "sync queue full"
NoErr == "nil"

\* the nil *ChangeEvent
NilEvent == [isNil |-> TRUE]

\* the struct ChangeEvent, the fields the queue and the agent read
ChangeEvent(id, type, fileID, attempts) ==
    [ID |-> id, Type |-> type, FileID |-> fileID, Attempts |-> attempts]

\* a mutation of Push that accepts one event too many
PushOffByOne(q, event) ==
    IF Len(q) > maxSize THEN [items |-> q, err |-> ErrQueueFull]
    ELSE [items |-> Append(q, event), err |-> NoErr]

\* func (q *ChangeQueue) Push(event *ChangeEvent) error, on q.items = q
PushOp(q, event) ==
    IF Len(q) >= maxSize THEN [items |-> q, err |-> ErrQueueFull]
    ELSE [items |-> Append(q, event), err |-> NoErr]

\* a mutation of Pop that takes the newest event
PopNewest(q) ==
    IF Len(q) = 0 THEN [items |-> q, event |-> NilEvent]
    ELSE [items |-> SubSeq(q, 1, Len(q) - 1), event |-> q[Len(q)]]

\* func (q *ChangeQueue) Pop() *ChangeEvent
PopOp(q) ==
    IF Len(q) = 0 THEN [items |-> q, event |-> NilEvent]
    ELSE [items |-> Tail(q), event |-> Head(q)]

\* func (q *ChangeQueue) PopN(n int) []*ChangeEvent
\* (make([]*ChangeEvent, count) panics for a negative count; the deferred
\* Unlock runs and q.items has not been assigned)
PopNOp(q, n) ==
    IF Len(q) = 0 THEN [items |-> q, events |-> <<>>, panic |-> FALSE]
    ELSE LET count == IF n > Len(q) THEN Len(q) ELSE n
         IN  IF count < 0 THEN [items |-> q, events |-> <<>>, panic |-> TRUE]
             ELSE [items |-> SubSeq(q, count + 1, Len(q)),
                   events |-> SubSeq(q, 1, count), panic |-> FALSE]

\* func (q *ChangeQueue) Len() int
LenOp(q) == Len(q)

\* func (q *ChangeQueue) Clear()
ClearOp(q) == <<>>

--------------------------------------------------------------------------
(* One ChangeQueue called by one caller (SpecQueue) *)

\* events a caller may push
EventIDs == {"e1", "e2"}
Events == {ChangeEvent(id, ChangeTypeCreate, "f1", 0) : id \in EventIDs}

\* NewChangeQueue(maxSize): no items
IdleQueue ==
    /\ items = <<>>
    /\ pushed = <<>>
    /\ popped = <<>>
    /\ cleared = <<>>
    /\ qlast = NoCall
    /\ prev = NoCall

InitQueue == IdleQueue

\* the summary of qlast that prev keeps
Summary ==
    IF qlast = NoCall THEN NoCall
    ELSE [op |-> qlast.op, ok |-> qlast.ok, preLen |-> Len(qlast.pre)]

\* q.Push(event)
Push(event) ==
    LET r == PushOp(items, event)
    IN  /\ Len(pushed) < MaxPushes
        /\ items' = r.items
        /\ pushed' = IF r.err = NoErr THEN Append(pushed, event) ELSE pushed
        /\ qlast' = [op |-> "Push", event |-> event, pre |-> items,
                     err |-> r.err, ok |-> (r.err = NoErr)]
        /\ prev' = Summary
        /\ UNCHANGED <<popped, cleared, restQueue>>

\* q.Pop()
Pop ==
    LET r == PopOp(items)
    IN  /\ items' = r.items
        /\ popped' = IF r.event = NilEvent THEN popped ELSE Append(popped, r.event)
        /\ qlast' = [op |-> "Pop", pre |-> items, out |-> r.event,
                     ok |-> (r.event # NilEvent)]
        /\ prev' = Summary
        /\ UNCHANGED <<pushed, cleared, restQueue>>

\* q.PopN(n)
PopN(n) ==
    LET r == PopNOp(items, n)
    IN  /\ items' = r.items
        /\ popped' = popped \o r.events
        /\ qlast' = [op |-> "PopN", n |-> n, pre |-> items, out |-> r.events,
                     panic |-> r.panic, ok |-> ~r.panic]
        /\ prev' = Summary
        /\ UNCHANGED <<pushed, cleared, restQueue>>

\* q.Len()
LenCall ==
    /\ qlast' = [op |-> "Len", pre |-> items, out |-> LenOp(items), ok |-> TRUE]
    /\ prev' = Summary
    /\ UNCHANGED <<items, pushed, popped, cleared, restQueue>>

\* q.Clear()
Clear ==
    /\ items' = ClearOp(items)
    /\ cleared' = cleared \o items
    /\ qlast' = [op |-> "Clear", pre |-> items, ok |-> TRUE]
    /\ prev' = Summary
    /\ UNCHANGED <<pushed, popped, restQueue>>

NextQueue ==
    \/ \E e \in Events : Push(e)
    \/ Pop
    \/ \E n \in (-1)..MaxPopN : PopN(n)
    \/ LenCall
    \/ Clear

--------------------------------------------------------------------------
(* One ChangeQueue called by several goroutines (SpecConc) *)

\* the goroutines that call the queue
Goroutines == {"g1", "g2"}

\* sync.Mutex not held
Unlocked == "unlocked"

\* no goroutine is inside a call
IdleConc ==
    /\ mu = Unlocked
    /\ gpc = [g \in Goroutines |-> "idle"]
    /\ gloc = [g \in Goroutines |-> NoCall]
    /\ calls = 0

InitConc == IdleQueue /\ IdleConc

\* a goroutine enters Push(event) with an event of its own
CallPush(g) ==
    /\ gpc[g] = "idle"
    /\ calls < MaxPushes
    /\ calls' = calls + 1
    /\ gloc' = [gloc EXCEPT ![g] =
                  [op |-> "Push",
                   event |-> ChangeEvent(calls + 1, ChangeTypeCreate, "f1", 0)]]
    /\ gpc' = [gpc EXCEPT ![g] = "lock"]
    /\ UNCHANGED <<mu, items, pushed, popped, cleared, restConc>>

\* a goroutine enters Pop(), PopN(n), Len() or Clear()
CallOther(g, op, n) ==
    /\ gpc[g] = "idle"
    /\ gloc' = [gloc EXCEPT ![g] = [op |-> op, n |-> n]]
    /\ gpc' = [gpc EXCEPT ![g] = "lock"]
    /\ UNCHANGED <<mu, calls, items, pushed, popped, cleared, restConc>>

\* a mutation of Lock that does not wait for the mutex
LockNoWait(g) ==
    /\ gpc[g] = "lock"
    /\ mu' = g
    /\ gpc' = [gpc EXCEPT ![g] = "read"]
    /\ UNCHANGED <<gloc, calls, items, pushed, popped, cleared, restConc>>

\* q.mu.Lock(): blocks while another goroutine holds the mutex
Lock(g) ==
    /\ gpc[g] = "lock"
    /\ mu = Unlocked
    /\ mu' = g
    /\ gpc' = [gpc EXCEPT ![g] = "read"]
    /\ UNCHANGED <<gloc, calls, items, pushed, popped, cleared, restConc>>

\* the call reads q.items (len(q.items), q.items[0], q.items[:count])
ReadItems(g) ==
    /\ gpc[g] = "read"
    /\ gloc' = [gloc EXCEPT ![g] = [f \in (DOMAIN @) \cup {"snap"} |->
                                       IF f = "snap" THEN items ELSE @[f]]]
    /\ gpc' = [gpc EXCEPT ![g] = "write"]
    /\ UNCHANGED <<mu, calls, items, pushed, popped, cleared, restConc>>

\* the call assigns q.items from what it read, and has its result
WriteItems(g) ==
    LET c == gloc[g]
    IN  /\ gpc[g] = "write"
        /\ \/ /\ c.op = "Push"
              /\ LET r == PushOp(c.snap, c.event)
                 IN  /\ items' = IF r.err = NoErr THEN r.items ELSE items
                     /\ pushed' = IF r.err = NoErr THEN Append(pushed, c.event)
                                  ELSE pushed
              /\ UNCHANGED <<popped, cleared>>
           \/ /\ c.op = "Pop"
              /\ LET r == PopOp(c.snap)
                 IN  /\ items' = IF r.event = NilEvent THEN items ELSE r.items
                     /\ popped' = IF r.event = NilEvent THEN popped
                                  ELSE Append(popped, r.event)
              /\ UNCHANGED <<pushed, cleared>>
           \/ /\ c.op = "PopN"
              /\ LET r == PopNOp(c.snap, c.n)
                 IN  /\ items' = IF c.snap = <<>> THEN items ELSE r.items
                     /\ popped' = popped \o r.events
              /\ UNCHANGED <<pushed, cleared>>
           \/ /\ c.op = "Len"
              /\ UNCHANGED <<items, pushed, popped, cleared>>
           \/ /\ c.op = "Clear"
              /\ items' = ClearOp(c.snap)
              /\ cleared' = cleared \o items
              /\ UNCHANGED <<pushed, popped>>
        /\ gpc' = [gpc EXCEPT ![g] = "unlock"]
        /\ UNCHANGED <<mu, gloc, calls, restConc>>

\* defer q.mu.Unlock(), and the call returns
Unlock(g) ==
    /\ gpc[g] = "unlock"
    /\ mu' = IF mu = g THEN Unlocked ELSE mu
    /\ gpc' = [gpc EXCEPT ![g] = "idle"]
    /\ gloc' = [gloc EXCEPT ![g] = NoCall]
    /\ UNCHANGED <<calls, items, pushed, popped, cleared, restConc>>

NextConc ==
    \/ \E g \in Goroutines : CallPush(g)
    \/ \E g \in Goroutines, op \in {"Pop", "Len", "Clear"} : CallOther(g, op, 0)
    \/ \E g \in Goroutines, n \in 1..MaxPopN : CallOther(g, "PopN", n)
    \/ \E g \in Goroutines : Lock(g)
    \/ \E g \in Goroutines : ReadItems(g)
    \/ \E g \in Goroutines : WriteItems(g)
    \/ \E g \in Goroutines : Unlock(g)

--------------------------------------------------------------------------
(* Sync agent (SpecAgent): QueueChange, the delivery loop of the configured
   mode, handleSyncError.  The agent's queue is created with capacity 10000
   (NewAgent); the model gives it the capacity maxSize.  syncEvent stands
   for the call to the coordinator: whether it returns an error is an input
   of the step. *)

\* AgentConfig.Mode values Start distinguishes; any other value runs push mode
Modes == {"push", "batch", "pull", ""}

\* logger.Error lines that report a lost event
ReportQueueFull == "failed to queue change"
ReportDropped == "max retries exceeded, dropping event"

\* NewAgent(cfg, metaStore): an empty queue, the loop not started
IdleAgent ==
    /\ cfg = [Mode |-> "push", MaxRetries |-> MaxRetriesCfg, BatchSize |-> 1]
    /\ apc = "new"
    /\ batch = <<>>
    /\ delivered = <<>>
    /\ reported = {}
    /\ accepted = {}
    /\ stopped = FALSE
    /\ sent = [id \in 1..MaxEvents |-> 0]
    /\ alast = NoCall

InitAgent ==
    /\ cfg \in [Mode : Modes, MaxRetries : 0..MaxRetriesCfg,
                BatchSize : 1..MaxBatchCfg]
    /\ apc = "new"
    /\ batch = <<>>
    /\ delivered = <<>>
    /\ reported = {}
    /\ accepted = {}
    /\ stopped = FALSE
    /\ sent = [id \in 1..MaxEvents |-> 0]
    /\ alast = NoCall
    /\ items = <<>>

\* func (a *Agent) Start(ctx): one delivery goroutine for the configured mode
Start ==
    /\ apc = "new"
    /\ apc' = "loop"
    /\ UNCHANGED <<cfg, batch, delivered, reported, accepted, stopped, sent, alast,
                   items, restAgent>>

\* func (a *Agent) Stop(): close(a.stopCh)
Stop ==
    /\ apc # "new"
    /\ ~stopped
    /\ stopped' = TRUE
    /\ UNCHANGED <<cfg, apc, batch, delivered, reported, accepted, sent, alast,
                   items, restAgent>>

\* func (a *Agent) QueueChange(changeType, meta): a new event is pushed; a
\* failing Push is logged as an error
QueueChange(changeType, fileID) ==
    LET id == Cardinality(accepted) + 1
        event == ChangeEvent(id, changeType, fileID, 0)
        r == PushOp(items, event)
    IN  /\ id <= MaxEvents
        /\ accepted' = accepted \cup {id}
        /\ items' = r.items
        /\ reported' = IF r.err # NoErr
                       THEN reported \cup {[id |-> id, msg |-> ReportQueueFull]}
                       ELSE reported
        /\ UNCHANGED <<cfg, apc, batch, delivered, stopped, sent, alast, restAgent>>

\* the loop's select finds stopCh closed (or ctx done) and returns
LoopExit ==
    /\ apc = "loop"
    /\ stopped
    /\ apc' = "exited"
    /\ UNCHANGED <<cfg, batch, delivered, reported, accepted, stopped, sent, alast,
                   items, restAgent>>

\* runPushMode, the default case of the select (taken only when stopCh is
\* not closed): Pop; nil: sleep and continue; otherwise syncEvent
PushModeStep ==
    LET r == PopOp(items)
    IN  /\ apc = "loop"
        /\ cfg.Mode \notin {"batch", "pull"}
        /\ ~stopped
        /\ items' = r.items
        /\ batch' = IF r.event = NilEvent THEN <<>> ELSE <<r.event>>
        /\ apc' = IF r.event = NilEvent THEN "loop" ELSE "sync"
        /\ UNCHANGED <<cfg, delivered, reported, accepted, stopped, sent, alast,
                       restAgent>>

\* runBatchMode, case <-ticker.C (select picks any ready case, so a tick may
\* still be served when stopCh is closed): syncBatch pops up to BatchSize
\* events
BatchModeTick ==
    LET r == PopNOp(items, cfg.BatchSize)
    IN  /\ apc = "loop"
        /\ cfg.Mode = "batch"
        /\ items' = r.items
        /\ batch' = r.events
        /\ apc' = IF Len(r.events) = 0 THEN "loop" ELSE "sync"
        /\ UNCHANGED <<cfg, delivered, reported, accepted, stopped, sent, alast,
                       restAgent>>

\* runPullMode, case <-ticker.C: pullChanges only logs
PullModeTick ==
    /\ apc = "loop"
    /\ cfg.Mode = "pull"
    /\ UNCHANGED <<cfg, apc, batch, delivered, reported, accepted, stopped,
                   sent, alast, items, restAgent>>

\* a mutation of handleSyncError that retries once more than MaxRetries
HandleSyncErrorOneMore(q, event, maxRetries) ==
    LET ev == [event EXCEPT !.Attempts = @ + 1]
    IN  IF ev.Attempts <= maxRetries
        THEN [items |-> PushOp(q, ev).items, event |-> ev, report |-> {}]
        ELSE [items |-> q, event |-> ev,
              report |-> {[id |-> ev.ID, msg |-> ReportDropped]}]

\* func (a *Agent) handleSyncError(event, err): Attempts++, then Push with
\* the error discarded, or the drop logged
HandleSyncErrorOp(q, event, maxRetries) ==
    LET ev == [event EXCEPT !.Attempts = @ + 1]
    IN  IF ev.Attempts < maxRetries
        THEN [items |-> PushOp(q, ev).items, event |-> ev, report |-> {}]
        ELSE [items |-> q, event |-> ev,
              report |-> {[id |-> ev.ID, msg |-> ReportDropped]}]

\* syncEvent(ctx, event) for the first event in transmission returns nil (ok)
\* or an error, which handleSyncError handles; then the next event of the
\* batch, or back to the select
SyncEvent(ok) ==
    LET event == Head(batch)
        h == HandleSyncErrorOp(items, event, cfg.MaxRetries)
    IN  /\ apc = "sync"
        /\ batch' = Tail(batch)
        /\ apc' = IF Tail(batch) = <<>> THEN "loop" ELSE "sync"
        /\ sent' = [sent EXCEPT ![event.ID] = @ + 1]
        /\ IF ok
           THEN /\ delivered' = Append(delivered, event)
                /\ UNCHANGED <<items, reported, alast>>
           ELSE /\ items' = h.items
                /\ reported' = reported \cup h.report
                /\ alast' = [op |-> "handleSyncError", event |-> event,
                             after |-> h.event, pre |-> items,
                             post |-> h.items]
                /\ UNCHANGED delivered
        /\ UNCHANGED <<cfg, accepted, stopped, restAgent>>

NextAgent ==
    \/ Start
    \/ Stop
    \* the two mutations the file service has: create (Upload) and delete
    \/ \E t \in {ChangeTypeCreate, ChangeTypeDelete} : QueueChange(t, "f1")
    \/ LoopExit
    \/ PushModeStep
    \/ BatchModeTick
    \/ PullModeTick
    \/ \E ok \in BOOLEAN : SyncEvent(ok)

--------------------------------------------------------------------------
(* Coordinator (SpecCoord): the global metadata manager (EtcdManager, an
   in-memory map) and the sync engine's HandleChange, fan-out and
   GetPendingChanges.  The calls of this specification are made one after
   the other. *)

ErrNotFound == "resource not found"
ErrAlreadyExists == "resource already exists"
ErrConflict == "conflict detected"

StrategyEager == "eager"
StrategyLazy == "lazy"
StrategyOnDemand == "on_demand"
Strategies == {StrategyEager, StrategyLazy, StrategyOnDemand}

\* no entry for this region id in Engine.regions
NotRegistered == [registered |-> FALSE, PendingEvents |-> <<>>]
\* the RegionState of a registered region, of which PendingEvents is kept
RegionState(q) == [registered |-> TRUE, PendingEvents |-> q]

\* the file the events of this specification are about
CoordFiles == {"f1"}

\* the regions the events of this specification come from; the third region
\* only receives
Origins == {"ra", "rb"}

\* the vector clocks the events of this specification carry: one write by one
\* replica, by the other, or by both
EventClocks ==
    {MakeClock(f) : f \in [Replicas -> {0, 1}]}
        \ {MakeClock([r \in Replicas |-> 0])}

\* the events a region sends: a DELETE is handled by its FileID alone
EventInputs ==
    {[Type |-> t, VectorClock |-> vc] :
        t \in {ChangeTypeCreate, ChangeTypeUpdate}, vc \in EventClocks}
    \cup {[Type |-> ChangeTypeDelete, VectorClock |-> NilClock]}

\* the coordinator's ChangeEvent: Metadata is a GlobalFileMetadata, of which
\* the embedded FileMetadata is kept
CoordEvent(id, type, fileID, vc, region) ==
    [ID |-> id, Type |-> type, FileID |-> fileID, RegionID |-> region,
     Metadata |-> FileMetadata(fileID, 1, vc,
                     IF type = ChangeTypeDelete THEN LocalStateDeleted
                     ELSE LocalStatePresent, SyncStatePending)]

\* func (m *EtcdManager) Get(ctx, fileID)
GetOp(st, fileID) ==
    IF st[fileID] = NoMeta THEN [meta |-> NoMeta, err |-> ErrNotFound]
    ELSE [meta |-> st[fileID], err |-> NoErr]

\* a mutation of Update that stores the incoming metadata without the clock check
UpdateNoCheck(st, m) ==
    IF st[m.ID] = NoMeta THEN [store |-> st, err |-> ErrNotFound]
    ELSE [store |-> [st EXCEPT ![m.ID] = m], err |-> NoErr]

\* func (m *EtcdManager) Update(ctx, meta)
UpdateOp(st, m) ==
    IF st[m.ID] = NoMeta THEN [store |-> st, err |-> ErrNotFound]
    ELSE IF CompareClock(st[m.ID].VectorClock, m.VectorClock) = ClockConcurrent
    THEN [store |-> st, err |-> ErrConflict]
    ELSE [store |-> [st EXCEPT ![m.ID] = m], err |-> NoErr]

\* func (m *EtcdManager) Register(ctx, meta)
RegisterOp(st, m) ==
    IF st[m.ID] # NoMeta THEN [store |-> st, err |-> ErrAlreadyExists]
    ELSE [store |-> [st EXCEPT ![m.ID] = m], err |-> NoErr]

\* func (m *EtcdManager) Delete(ctx, fileID): delete(m.store, fileID)
DeleteOp(st, fileID) ==
    IF st[fileID] = NoMeta THEN [store |-> st, err |-> ErrNotFound]
    ELSE [store |-> [st EXCEPT ![fileID] = NoMeta], err |-> NoErr]

\* the switch on event.Type in HandleChange
MetaStep(st, event) ==
    CASE event.Type = ChangeTypeCreate -> RegisterOp(st, event.Metadata)
      [] event.Type = ChangeTypeUpdate -> UpdateOp(st, event.Metadata)
      [] event.Type = ChangeTypeDelete -> DeleteOp(st, event.FileID)
      [] OTHER -> [store |-> st, err |-> NoErr]

\* a mutation of broadcastChange that does not skip the source region
BroadcastToAll(rs, event) ==
    [r \in Regions |->
        IF rs[r] = NotRegistered THEN rs[r]
        ELSE RegionState(Append(rs[r].PendingEvents, event))]

\* func (e *Engine) broadcastChange(ctx, event)
BroadcastOp(rs, event) ==
    [r \in Regions |->
        IF rs[r] = NotRegistered \/ r = event.RegionID THEN rs[r]
        ELSE RegionState(Append(rs[r].PendingEvents, event))]

\* a mutation of GetPendingChanges that leaves the pending list in place
GetPendingKeep(rs, r) ==
    IF rs[r] = NotRegistered THEN [regions |-> rs, events |-> <<>>, ok |-> FALSE]
    ELSE [regions |-> rs, events |-> rs[r].PendingEvents, ok |-> TRUE]

\* func (e *Engine) GetPendingChanges(ctx, regionID): ok is FALSE when the
\* region is not registered (nil, nil is returned)
GetPendingOp(rs, r) ==
    IF rs[r] = NotRegistered THEN [regions |-> rs, events |-> <<>>, ok |-> FALSE]
    ELSE [regions |-> [rs EXCEPT ![r] = RegionState(<<>>)],
          events |-> rs[r].PendingEvents, ok |-> TRUE]

\* the ids of a sequence of events
IDs(q) == {q[i].ID : i \in 1..Len(q)}

\* NewEtcdManager, NewEngine(cfg, metaManager) with the default strategy
IdleCoord ==
    /\ gstore = [f \in CoordFiles |-> NoMeta]
    /\ regions = [r \in Regions |-> NotRegistered]
    /\ strategy = StrategyEager
    /\ nchanges = 0
    /\ clast = NoCall
    /\ returned = [r \in Regions |-> {}]
    /\ twice = FALSE
    /\ everReg = {}

InitCoord ==
    /\ gstore = [f \in CoordFiles |-> NoMeta]
    /\ regions = [r \in Regions |-> NotRegistered]
    /\ strategy \in Strategies
    /\ nchanges = 0
    /\ clast = NoCall
    /\ returned = [r \in Regions |-> {}]
    /\ twice = FALSE
    /\ everReg = {}

\* a mutation of HandleChange that broadcasts before it looks at the error
\* of the metadata step
HandleChangeBroadcastFirst(type, fileID, vc, region) ==
    LET event == CoordEvent(nchanges + 1, type, fileID, vc, region)
        r == MetaStep(gstore, event)
    IN  /\ nchanges < MaxChanges
        /\ nchanges' = nchanges + 1
        /\ gstore' = r.store
        /\ regions' = IF strategy = StrategyEager
                      THEN BroadcastOp(regions, event) ELSE regions
        /\ everReg' = IF r.err = NoErr /\ type = ChangeTypeCreate
                      THEN everReg \cup {fileID} ELSE everReg
        /\ clast' = [op |-> "HandleChange", event |-> event, err |-> r.err]
        /\ UNCHANGED <<strategy, returned, twice, restCoord>>

\* func (e *Engine) HandleChange(ctx, event)
HandleChange(type, fileID, vc, region) ==
    LET event == CoordEvent(nchanges + 1, type, fileID, vc, region)
        r == MetaStep(gstore, event)
    IN  /\ nchanges < MaxChanges
        /\ nchanges' = nchanges + 1
        /\ gstore' = r.store
        /\ regions' = IF r.err = NoErr /\ strategy = StrategyEager
                      THEN BroadcastOp(regions, event) ELSE regions
        /\ everReg' = IF r.err = NoErr /\ type = ChangeTypeCreate
                      THEN everReg \cup {fileID} ELSE everReg
        /\ clast' = [op |-> "HandleChange", event |-> event, err |-> r.err]
        /\ UNCHANGED <<strategy, returned, twice, restCoord>>

\* func (e *Engine) RegisterRegion(regionID): a fresh RegionState
RegisterRegion(r) ==
    /\ regions' = [regions EXCEPT ![r] = RegionState(<<>>)]
    /\ clast' = [op |-> "RegisterRegion"]
    /\ UNCHANGED <<gstore, strategy, nchanges, returned, twice, everReg,
                   restCoord>>

\* func (e *Engine) UnregisterRegion(regionID)
UnregisterRegion(r) ==
    /\ regions' = [regions EXCEPT ![r] = NotRegistered]
    /\ clast' = [op |-> "UnregisterRegion"]
    /\ UNCHANGED <<gstore, strategy, nchanges, returned, twice, everReg,
                   restCoord>>

\* func (e *Engine) GetPendingChanges(ctx, regionID)
GetPendingChanges(r) ==
    LET g == GetPendingOp(regions, r)
    IN  /\ regions' = g.regions
        /\ returned' = [returned EXCEPT ![r] = @ \cup IDs(g.events)]
        /\ twice' = (twice \/ returned[r] \cap IDs(g.events) # {}
                          \/ Cardinality(IDs(g.events)) # Len(g.events))
        /\ clast' = [op |-> "GetPendingChanges", region |-> r,
                     out |-> g.events, ok |-> g.ok]
        /\ UNCHANGED <<gstore, strategy, nchanges, everReg, restCoord>>

\* func (m *EtcdManager) Get(ctx, fileID), the GET /metadata/:id route
GetMetadata(fileID) ==
    /\ clast' = [op |-> "Get", fileID |-> fileID, out |-> GetOp(gstore, fileID)]
    /\ UNCHANGED <<gstore, regions, strategy, nchanges, returned, twice,
                   everReg, restCoord>>

\* func (e *Engine) cleanupStaleRegions(), run by runEventLoop on each tick:
\* it only logs the stale regions
CleanupStaleRegions ==
    /\ clast' = [op |-> "cleanupStaleRegions"]
    /\ UNCHANGED <<gstore, regions, strategy, nchanges, returned, twice,
                   everReg, restCoord>>

NextCoord ==
    \/ \E in \in EventInputs, f \in CoordFiles, r \in Origins :
          HandleChange(in.Type, f, in.VectorClock, r)
    \/ \E r \in Regions : RegisterRegion(r)
    \/ \E r \in Regions : UnregisterRegion(r)
    \/ \E r \in Regions : GetPendingChanges(r)
    \/ \E f \in CoordFiles : GetMetadata(f)
    \/ CleanupStaleRegions

--------------------------------------------------------------------------
(* Concurrent EtcdManager.Update calls (SpecUpd).  EtcdManager has no lock:
   the read of m.store[meta.ID] with the clock check, and the assignment
   m.store[meta.ID] = meta, are separate steps of each goroutine.  Two
   goroutines that are both at the assignment race on the map; the Go
   runtime may then stop the program ("concurrent map writes") or let the
   writes happen in either order. *)

\* no Update call made yet by this goroutine
NoUpdate == [meta |-> NoMeta, err |-> NoErr]

IdleUpd ==
    /\ upc = [g \in Goroutines |-> "idle"]
    /\ uloc = [g \in Goroutines |-> NoUpdate]

\* the store holds one registered file, with any of the clocks an event may
\* have carried, or the clock of an event without one
InitUpd ==
    /\ \E vc \in EventClocks \cup {NilClock} :
          gstore = [f \in CoordFiles |->
                       FileMetadata(f, 1, vc, LocalStatePresent, SyncStateSynced)]
    /\ regions = [r \in Regions |-> NotRegistered]
    /\ strategy = StrategyEager
    /\ nchanges = 0
    /\ clast = NoCall
    /\ returned = [r \in Regions |-> {}]
    /\ twice = FALSE
    /\ everReg = CoordFiles
    /\ IdleUpd

\* goroutine g calls m.Update(ctx, meta)
CallUpdate(g, fileID, vc) ==
    /\ upc[g] = "idle"
    /\ upc' = [upc EXCEPT ![g] = "read"]
    /\ uloc' = [uloc EXCEPT ![g] =
                   [meta |-> FileMetadata(fileID, 2, vc, LocalStatePresent,
                                          SyncStatePending),
                    err |-> NoErr]]
    /\ UNCHANGED <<gstore, restUpd>>

\* existing, ok := m.store[meta.ID]; the not-found and the conflict return
CheckUpdate(g) == UpdateOp(gstore, uloc[g].meta).err

\* the read and the check of goroutine g's Update
ReadUpdate(g) ==
    /\ upc[g] = "read"
    /\ upc' = [upc EXCEPT ![g] = IF CheckUpdate(g) = NoErr THEN "write"
                                  ELSE "done"]
    /\ uloc' = [uloc EXCEPT ![g].err = CheckUpdate(g)]
    /\ UNCHANGED <<gstore, restUpd>>

\* m.store[meta.ID] = meta; return nil
WriteUpdate(g) ==
    /\ upc[g] = "write"
    /\ gstore' = [gstore EXCEPT ![uloc[g].meta.ID] = uloc[g].meta]
    /\ upc' = [upc EXCEPT ![g] = "done"]
    /\ UNCHANGED <<uloc, restUpd>>

\* both goroutines are at the assignment: the runtime detects the concurrent
\* map writes and the process dies
FatalMapWrites ==
    /\ \A g \in Goroutines : upc[g] = "write"
    /\ upc' = [g \in Goroutines |-> "fatal"]
    /\ UNCHANGED <<gstore, uloc, restUpd>>

NextUpd ==
    \/ \E g \in Goroutines, f \in CoordFiles, vc \in EventClocks :
          CallUpdate(g, f, vc)
    \/ \E g \in Goroutines : ReadUpdate(g)
    \/ \E g \in Goroutines : WriteUpdate(g)
    \/ FatalMapWrites

--------------------------------------------------------------------------
(* Conflict resolver: Resolve (SpecRes) *)

StrategyLWW == "last_writer_wins"
StrategyMerge == "merge"
StrategyManual == "manual"
StrategyFork == "fork"
ResolveStrategies == {StrategyLWW, StrategyMerge, StrategyManual, StrategyFork}

\* a GlobalFileMetadata as the resolver reads it: the embedded FileMetadata's
\* ID, Name, Path, UpdatedAt and VectorClock
Version(id, name, updatedAt, vc) ==
    [ID |-> id, Name |-> name, Path |-> "/" \o name, UpdatedAt |-> updatedAt,
     VectorClock |-> vc]

\* a mutation of last-writer-wins that always lets the remote version win
RemoteAlwaysWins(c) ==
    [winner |-> c.RemoteVersion, loser |-> c.LocalVersion]

\* func (r *Resolver) resolveLastWriterWins(conflict)
ResolveLastWriterWins(c) ==
    IF c.LocalVersion.UpdatedAt > c.RemoteVersion.UpdatedAt
    THEN [winner |-> c.LocalVersion, loser |-> c.RemoteVersion]
    ELSE [winner |-> c.RemoteVersion, loser |-> c.LocalVersion]

\* a mutation of resolveFork that renames the copy but leaves its Path
ForkNameOnly(c) == [c.RemoteVersion EXCEPT !.Name = @ \o ".conflict"]

\* func (r *Resolver) resolveFork(conflict): a copy of the remote version
ResolveFork(c) ==
    [c.RemoteVersion EXCEPT !.Path = @ \o ".conflict",
                            !.Name = @ \o ".conflict"]

\* func (r *Resolver) Resolve(ctx, conflict, strategy): the Resolution and
\* the conflict afterwards
ResolveOp(c, strategyArg, defaultStrategy) ==
    LET strat == IF strategyArg = "" THEN defaultStrategy ELSE strategyArg
        lww == ResolveLastWriterWins(c)
    IN  [resolution |->
            [ConflictID |-> c.ID, Strategy |-> strat,
             Result |-> IF strat = StrategyFork THEN ResolveFork(c)
                        ELSE lww.winner,
             Rejected |-> IF strat = StrategyFork THEN NoMeta ELSE lww.loser],
         conflict |-> [c EXCEPT !.Status = "resolved"],
         err |-> NoErr]

\* no conflict, a resolver with the coordinator's default strategy
IdleRes ==
    /\ conflict = NilConflict
    /\ rdefault = StrategyLWW
    /\ rlast = NoCall
    /\ nres = 0

\* NewResolver(defaultStrategy), and a pending conflict as Detect reports it
\* for two versions of one file with concurrent clocks
InitRes ==
    /\ rdefault \in ResolveStrategies
    /\ \E tl \in 0..MaxTime, tr \in 0..MaxTime :
          conflict =
              [ID |-> "conflict-1"] @@
              Detect(Version("f1", "local.txt", tl,
                             MakeClock([r \in Replicas |->
                                           IF r = "ra" THEN 1 ELSE 0])),
                     Version("f1", "remote.txt", tr,
                             MakeClock([r \in Replicas |->
                                           IF r = "ra" THEN 0 ELSE 1])))
    /\ rlast = NoCall
    /\ nres = 0

\* resolver.Resolve(ctx, conflict, strategy)
Resolve(strategyArg) ==
    LET r == ResolveOp(conflict, strategyArg, rdefault)
    IN  /\ nres < MaxResolves
        /\ conflict' = r.conflict
        /\ rlast' = [op |-> "Resolve", strategy |-> strategyArg,
                     resolution |-> r.resolution, err |-> r.err,
                     pre |-> conflict]
        /\ nres' = nres + 1
        /\ UNCHANGED <<rdefault, restRes>>

NextRes == \E st \in ResolveStrategies \cup {""} : Resolve(st)

--------------------------------------------------------------------------
(* Region registry (SpecReg): Register, Deregister, Heartbeat, the readers
   and the periodic health check.  Time is counted in minutes; every method
   holds r.mu for its whole body. *)

StateHealthy == "healthy"
StateDegraded == "degraded"
StateOffline == "offline"

\* the thresholds of checkHealth, in minutes
degradedThreshold == 1
offlineThreshold == 5

\* region ids the registry is called with
RegIDs == {"ra", "rb"}

\* no entry for this region id in Registry.regions
NoRegion == [registered |-> FALSE]

\* RegionStatus: State, SyncLag, LastCheckAt
RegionStatus(state, syncLag, lastCheckAt) ==
    [State |-> state, SyncLag |-> syncLag, LastCheckAt |-> lastCheckAt]

\* RegionInfo: the fields the registry writes
RegionInfo(status, joinedAt, lastSeenAt) ==
    [registered |-> TRUE, Status |-> status, JoinedAt |-> joinedAt,
     LastSeenAt |-> lastSeenAt]

\* the status payloads a heartbeat reports: the three states with the sync
\* lag a region in that state has, and a payload with another state string;
\* the payload's own LastCheckAt is the zero time
Reports ==
    {RegionStatus(StateHealthy, 0, 0), RegionStatus(StateDegraded, 5, 0),
     RegionStatus(StateOffline, 5, 0), RegionStatus("maintenance", 5, 0)}

\* a mutation of Register that replaces the entry of a registered id
RegisterOverwrite(rg, id, t) ==
    [regions |-> [rg EXCEPT ![id] =
                     RegionInfo(RegionStatus(StateHealthy, 0, t), t, t)],
     err |-> IF rg[id] # NoRegion THEN ErrAlreadyExists ELSE NoErr]

\* func (r *Registry) Register(ctx, region) at time t
RegistryRegister(rg, id, t) ==
    IF rg[id] # NoRegion THEN [regions |-> rg, err |-> ErrAlreadyExists]
    ELSE [regions |-> [rg EXCEPT ![id] =
                          RegionInfo(RegionStatus(StateHealthy, 0, t), t, t)],
          err |-> NoErr]

\* func (r *Registry) Deregister(ctx, regionID)
RegistryDeregister(rg, id) ==
    IF rg[id] = NoRegion THEN [regions |-> rg, err |-> ErrNotFound]
    ELSE [regions |-> [rg EXCEPT ![id] = NoRegion], err |-> NoErr]

\* a mutation of Heartbeat that keeps the state the registry had computed
HeartbeatKeepState(rg, id, status, t) ==
    IF rg[id] = NoRegion THEN [regions |-> rg, err |-> ErrNotFound]
    ELSE [regions |-> [rg EXCEPT ![id].LastSeenAt = t,
                                 ![id].Status =
                                     [status EXCEPT !.State = rg[id].Status.State,
                                                    !.LastCheckAt = t]],
          err |-> NoErr]

\* func (r *Registry) Heartbeat(ctx, regionID, status) at time t
HeartbeatOp(rg, id, status, t) ==
    IF rg[id] = NoRegion THEN [regions |-> rg, err |-> ErrNotFound]
    ELSE [regions |-> [rg EXCEPT ![id].LastSeenAt = t,
                                 ![id].Status =
                                     [status EXCEPT !.LastCheckAt = t]],
          err |-> NoErr]

\* func (r *Registry) GetRegion(ctx, regionID)
GetRegionOp(rg, id) ==
    IF rg[id] = NoRegion THEN [region |-> NoRegion, err |-> ErrNotFound]
    ELSE [region |-> rg[id], err |-> NoErr]

\* func (r *Registry) GetActiveRegions(ctx): the ids of the regions returned
GetActiveRegions(rg) ==
    {id \in RegIDs : rg[id] # NoRegion /\ rg[id].Status.State # StateOffline}

\* func (r *Registry) GetHealthyRegions(ctx): the ids of the regions returned
GetHealthyRegions(rg) ==
    {id \in RegIDs : rg[id] # NoRegion /\ rg[id].Status.State = StateHealthy}

\* a mutation of checkHealth that marks a region seen within the degraded
\* threshold healthy again
CheckHealthHeals(rg, t) ==
    [id \in RegIDs |->
        IF rg[id] = NoRegion THEN rg[id]
        ELSE LET elapsed == t - rg[id].LastSeenAt
             IN  IF elapsed > offlineThreshold
                 THEN [rg[id] EXCEPT !.Status.State = StateOffline]
                 ELSE IF elapsed > degradedThreshold
                 THEN [rg[id] EXCEPT !.Status.State = StateDegraded]
                 ELSE [rg[id] EXCEPT !.Status.State = StateHealthy]]

\* a mutation of checkHealth that compares with >= instead of >
CheckHealthAtThreshold(rg, t) ==
    [id \in RegIDs |->
        IF rg[id] = NoRegion THEN rg[id]
        ELSE LET elapsed == t - rg[id].LastSeenAt
             IN  IF elapsed >= offlineThreshold
                 THEN [rg[id] EXCEPT !.Status.State = StateOffline]
                 ELSE IF elapsed >= degradedThreshold
                          /\ rg[id].Status.State = StateHealthy
                 THEN [rg[id] EXCEPT !.Status.State = StateDegraded]
                 ELSE rg[id]]

\* func (r *Registry) checkHealth() at time t
CheckHealthOp(rg, t) ==
    [id \in RegIDs |->
        IF rg[id] = NoRegion THEN rg[id]
        ELSE LET elapsed == t - rg[id].LastSeenAt
             IN  IF elapsed > offlineThreshold
                 THEN [rg[id] EXCEPT !.Status.State = StateOffline]
                 ELSE IF elapsed > degradedThreshold
                          /\ rg[id].Status.State = StateHealthy
                 THEN [rg[id] EXCEPT !.Status.State = StateDegraded]
                 ELSE rg[id]]

\* NewRegistry()
IdleReg ==
    /\ reg = [id \in RegIDs |-> NoRegion]
    /\ now = 0
    /\ glast = NoCall

InitReg == IdleReg

\* time passes
Advance ==
    /\ now < MaxNow
    /\ now' = now + 1
    /\ UNCHANGED <<reg, glast, restReg>>

\* registry.Register(ctx, &RegionInfo{ID: id, ...})
Register(id) ==
    LET r == RegistryRegister(reg, id, now)
    IN  /\ reg' = r.regions
        /\ glast' = [op |-> "Register", region |-> id, err |-> r.err]
        /\ UNCHANGED <<now, restReg>>

\* registry.Deregister(ctx, id)
Deregister(id) ==
    LET r == RegistryDeregister(reg, id)
    IN  /\ reg' = r.regions
        /\ glast' = [op |-> "Deregister", region |-> id, err |-> r.err]
        /\ UNCHANGED <<now, restReg>>

\* registry.Heartbeat(ctx, id, &status)
Heartbeat(id, status) ==
    LET r == HeartbeatOp(reg, id, status, now)
    IN  /\ reg' = r.regions
        /\ glast' = [op |-> "Heartbeat", region |-> id, err |-> r.err,
                     status |-> status]
        /\ UNCHANGED <<now, restReg>>

\* registry.GetRegion(ctx, id)
GetRegion(id) ==
    /\ glast' = [op |-> "GetRegion", region |-> id,
                 err |-> GetRegionOp(reg, id).err]
    /\ UNCHANGED <<reg, now, restReg>>

\* runHealthChecker, case <-ticker.C: r.checkHealth()
CheckHealth ==
    /\ reg' = CheckHealthOp(reg, now)
    /\ glast' = [op |-> "checkHealth"]
    /\ UNCHANGED <<now, restReg>>

NextReg ==
    \/ Advance
    \/ \E id \in RegIDs : Register(id)
    \/ \E id \in RegIDs : Deregister(id)
    \/ \E id \in RegIDs, status \in Reports : Heartbeat(id, status)
    \/ \E id \in RegIDs : GetRegion(id)
    \/ CheckHealth

--------------------------------------------------------------------------
(* A region joining and leaving the coordinator (SpecDereg): the registry
   and the sync engine of one coordinator process.  The region joins the
   registry and is then registered with the engine, it sends heartbeats
   while time passes, another region submits changes, the region is
   deregistered and polls. *)

\* the region that joins and leaves
Leaver == "rb"

\* the region whose changes are submitted
Submitter == "ra"

NextDereg ==
    \/ Register(Leaver)
    \/ reg[Leaver] # NoRegion /\ RegisterRegion(Leaver)
    \/ \E in \in EventInputs, f \in CoordFiles :
          HandleChange(in.Type, f, in.VectorClock, Submitter)
    \/ Heartbeat(Leaver, RegionStatus(StateHealthy, 0, 0))
    \/ Advance
    \/ Deregister(Leaver)
    \/ GetPendingChanges(Leaver)

--------------------------------------------------------------------------
(* Background loops (SpecLoops): the goroutine that Start launches in the
   sync agent (runPushMode, runBatchMode, runPullMode), the sync engine
   (runEventLoop) and the registry (runHealthChecker), and Stop.  Every
   loop is a for around one select over stopCh, ctx.Done() and either a
   ticker or, in push mode, a default case; the work of one iteration
   (syncEvent, syncBatch, pullChanges, cleanupStaleRegions, checkHealth)
   makes no blocking call and returns. *)

\* the loop functions
LoopPush == "runPushMode"
LoopBatch == "runBatchMode"
LoopPull == "runPullMode"
LoopEngine == "runEventLoop"
LoopRegistry == "runHealthChecker"
Loops == {LoopPush, LoopBatch, LoopPull, LoopEngine, LoopRegistry}

\* the loops whose select has a ticker case
TickerLoops == Loops \ {LoopPush}

\* NewAgent / NewEngine / NewRegistry: stopCh open, no goroutine
IdleLoop ==
    /\ loop = LoopPush
    /\ lpc = "new"
    /\ stopCh = FALSE
    /\ ctxDone = FALSE
    /\ tick = FALSE
    /\ wg = 0
    /\ spc = "idle"

InitLoop ==
    /\ loop \in Loops
    /\ lpc = "new"
    /\ stopCh = FALSE
    /\ ctxDone = FALSE
    /\ tick = FALSE
    /\ wg = 0
    /\ spc = "idle"

\* Start(ctx): wg.Add(1); go run...(ctx)
StartLoop ==
    /\ lpc = "new"
    /\ spc = "idle"
    /\ wg' = wg + 1
    /\ lpc' = "select"
    /\ UNCHANGED <<loop, stopCh, ctxDone, tick, spc, restLoop>>

\* the caller of Start cancels ctx
Cancel ==
    /\ ~ctxDone
    /\ ctxDone' = TRUE
    /\ UNCHANGED <<loop, lpc, stopCh, tick, wg, spc, restLoop>>

\* the ticker sends a tick; ticker.C holds one
TickFires ==
    /\ loop \in TickerLoops
    /\ lpc \in {"select", "work"}
    /\ ~tick
    /\ tick' = TRUE
    /\ UNCHANGED <<loop, lpc, stopCh, ctxDone, wg, spc, restLoop>>

\* Stop(): close(stopCh), then wg.Wait() begins
StopClose ==
    /\ lpc # "new"
    /\ spc = "idle"
    /\ stopCh' = TRUE
    /\ spc' = "wait"
    /\ UNCHANGED <<loop, lpc, ctxDone, tick, wg, restLoop>>

\* a mutation of Stop that does not wait for the WaitGroup
StopReturnNoWait ==
    /\ spc = "wait"
    /\ spc' = "returned"
    /\ UNCHANGED <<loop, lpc, stopCh, ctxDone, tick, wg, restLoop>>

\* Stop(): wg.Wait() returns when the counter is zero
StopReturn ==
    /\ spc = "wait"
    /\ wg = 0
    /\ spc' = "returned"
    /\ UNCHANGED <<loop, lpc, stopCh, ctxDone, tick, wg, restLoop>>

\* a mutation of the loops whose select has no ctx.Done() case
SelectStopChOnly ==
    /\ lpc = "select"
    /\ stopCh
    /\ lpc' = "exited"
    /\ wg' = wg - 1
    /\ UNCHANGED <<loop, stopCh, ctxDone, tick, spc, restLoop>>

\* case <-stopCh, case <-ctx.Done(): return, and the deferred wg.Done()
SelectStop ==
    /\ lpc = "select"
    /\ stopCh \/ ctxDone
    /\ lpc' = "exited"
    /\ wg' = wg - 1
    /\ UNCHANGED <<loop, stopCh, ctxDone, tick, spc, restLoop>>

\* case <-ticker.C: one of the ready cases of the select
SelectTick ==
    /\ lpc = "select"
    /\ loop \in TickerLoops
    /\ tick
    /\ tick' = FALSE
    /\ lpc' = "work"
    /\ UNCHANGED <<loop, stopCh, ctxDone, wg, spc, restLoop>>

\* runPushMode's default case: taken only when no other case is ready
SelectDefault ==
    /\ lpc = "select"
    /\ loop = LoopPush
    /\ ~stopCh /\ ~ctxDone
    /\ lpc' = "work"
    /\ UNCHANGED <<loop, stopCh, ctxDone, tick, wg, spc, restLoop>>

\* the body of the iteration returns and the for loop selects again
WorkDone ==
    /\ lpc = "work"
    /\ lpc' = "select"
    /\ UNCHANGED <<loop, stopCh, ctxDone, tick, wg, spc, restLoop>>

NextLoop ==
    \/ StartLoop
    \/ Cancel
    \/ TickFires
    \/ StopClose
    \/ StopReturn
    \/ SelectStop
    \/ SelectTick
    \/ SelectDefault
    \/ WorkDone

--------------------------------------------------------------------------
(* A region reconnecting (SpecRecon): the sync agent of region regionID and
   the coordinator's sync engine.  While the region is away another region
   submits changes, which the engine queues for it; the region queues its
   own changes; then its delivery loop runs. *)

\* the region whose changes reach the coordinator while regionID is away
Other == "rb"

NextRecon ==
    \/ RegisterRegion(regionID)
    \/ \E in \in EventInputs, f \in CoordFiles :
          HandleChange(in.Type, f, in.VectorClock, Other)
    \/ QueueChange(ChangeTypeCreate, "f1")
    \/ Start
    \/ PushModeStep
    \/ BatchModeTick
    \/ PullModeTick
    \/ \E ok \in BOOLEAN : SyncEvent(ok)

--------------------------------------------------------------------------
(* Concurrent HandleChange calls (SpecBcast).  Each goroutine handles the
   event of one region.  broadcastChange holds e.mu.RLock(), which excludes
   GetPendingChanges (e.mu.Lock()) but not another broadcastChange; in its
   loop, state.PendingEvents = append(state.PendingEvents, event) reads the
   slice and then stores the longer one, two steps of the goroutine.  The
   metadata step of HandleChange is taken here as one step (its own races
   are the subject of SpecUpd). *)

\* the region whose event the goroutine handles
SourceOf == [g \in Goroutines |-> IF g = "g1" THEN "ra" ELSE "rb"]

\* the id of the goroutine's event
EventIDOf == [g \in Goroutines |-> IF g = "g1" THEN 1 ELSE 2]

\* the goroutine has made no HandleChange call
NoBroadcast == [event |-> NilEvent, err |-> NoErr, todo |-> {}, cur |-> "",
                seen |-> <<>>]

IdleBcast ==
    /\ bpc = [g \in Goroutines |-> "idle"]
    /\ bloc = [g \in Goroutines |-> NoBroadcast]
    /\ rlock = {}

\* an eager engine with every region registered, or only the third one,
\* and the file registered or not
InitBcast ==
    /\ gstore \in {[f \in CoordFiles |-> NoMeta],
                   [f \in CoordFiles |->
                       FileMetadata(f, 1, NilClock, LocalStatePresent,
                                    SyncStateSynced)]}
    /\ regions \in {[r \in Regions |-> RegionState(<<>>)],
                    [r \in Regions |-> IF r = "rc" THEN RegionState(<<>>)
                                       ELSE NotRegistered]}
    /\ strategy = StrategyEager
    /\ nchanges = 0
    /\ clast = NoCall
    /\ returned = [r \in Regions |-> {}]
    /\ twice = FALSE
    /\ everReg = {}
    /\ IdleBcast

\* goroutine g calls HandleChange(ctx, event): the switch on event.Type;
\* an error returns, otherwise the eager strategy calls broadcastChange
BeginChange(g, type, fileID, vc) ==
    LET event == CoordEvent(EventIDOf[g], type, fileID, vc, SourceOf[g])
        r == MetaStep(gstore, event)
    IN  /\ bpc[g] = "idle"
        /\ gstore' = r.store
        /\ bloc' = [bloc EXCEPT ![g] = [NoBroadcast EXCEPT !.event = event,
                                                            !.err = r.err]]
        /\ bpc' = [bpc EXCEPT ![g] =
                      IF r.err = NoErr /\ strategy = StrategyEager
                      THEN "rlock" ELSE "done"]
        /\ UNCHANGED <<regions, returned, rlock, restBcast>>

\* e.mu.RLock(); the range over e.regions begins
RLock(g) ==
    /\ bpc[g] = "rlock"
    /\ rlock' = rlock \cup {g}
    /\ bloc' = [bloc EXCEPT ![g].todo =
                   {r \in Regions : regions[r] # NotRegistered
                                    /\ r # bloc[g].event.RegionID}]
    /\ bpc' = [bpc EXCEPT ![g] = IF bloc'[g].todo = {} THEN "runlock"
                                  ELSE "range"]
    /\ UNCHANGED <<gstore, regions, returned, restBcast>>

\* the next region of the range (in the map's order, which is any order):
\* append reads state.PendingEvents
ReadPending(g, r) ==
    /\ bpc[g] = "range"
    /\ r \in bloc[g].todo
    /\ bloc' = [bloc EXCEPT ![g].cur = r,
                            ![g].seen = regions[r].PendingEvents]
    /\ bpc' = [bpc EXCEPT ![g] = "store"]
    /\ UNCHANGED <<gstore, regions, returned, rlock, restBcast>>

\* state.PendingEvents = the slice append returned
StorePending(g) ==
    LET r == bloc[g].cur
    IN  /\ bpc[g] = "store"
        /\ regions' = [regions EXCEPT ![r] =
                          RegionState(Append(bloc[g].seen, bloc[g].event))]
        /\ bloc' = [bloc EXCEPT ![g].todo = @ \ {r}, ![g].cur = "",
                                ![g].seen = <<>>]
        /\ bpc' = [bpc EXCEPT ![g] = IF bloc'[g].todo = {} THEN "runlock"
                                      ELSE "range"]
        /\ UNCHANGED <<gstore, returned, rlock, restBcast>>

\* defer e.mu.RUnlock(); HandleChange returns nil
RUnlock(g) ==
    /\ bpc[g] = "runlock"
    /\ rlock' = rlock \ {g}
    /\ bpc' = [bpc EXCEPT ![g] = "done"]
    /\ UNCHANGED <<gstore, regions, returned, bloc, restBcast>>

\* GetPendingChanges(ctx, r) on a third goroutine: e.mu.Lock() waits until
\* no reader holds the lock
LockedGetPending(r) ==
    /\ rlock = {}
    /\ regions[r] # NotRegistered
    /\ regions[r].PendingEvents # <<>>
    /\ regions' = GetPendingOp(regions, r).regions
    /\ returned' = [returned EXCEPT
                       ![r] = @ \cup IDs(GetPendingOp(regions, r).events)]
    /\ UNCHANGED <<gstore, bpc, bloc, rlock, restBcast>>

NextBcast ==
    \/ \E g \in Goroutines, in \in EventInputs, f \in CoordFiles :
          BeginChange(g, in.Type, f, in.VectorClock)
    \/ \E g \in Goroutines : RLock(g)
    \/ \E g \in Goroutines, r \in Regions : ReadPending(g, r)
    \/ \E g \in Goroutines : StorePending(g)
    \/ \E g \in Goroutines : RUnlock(g)
    \/ \E r \in Regions : LockedGetPending(r)

--------------------------------------------------------------------------
(* The references a ChangeEvent holds (SpecSnap).  QueueChange(changeType,
   meta) stores the pointer meta in event.Metadata and the map
   meta.VectorClock in event.VectorClock; it copies neither.  The one
   FileMetadata object of this specification is the variable meta.  Its
   VectorClock field is nil or refers to one map object: IncrementClock and
   MergeClock allocate a map only when the field is nil and otherwise write
   into the map the field refers to. *)

\* no event with this id has been created
NoRef == [created |-> FALSE]

\* the value event.Metadata points to
EventMetadata(id) == meta

\* the value of the map event.VectorClock refers to: nil if the metadata's
\* map was nil when the event was created, otherwise the metadata's map
EventVectorClock(id) ==
    IF refs[id].nilMap THEN NilClock ELSE meta.VectorClock

IdleSnap == refs = [id \in 1..MaxEvents |-> NoRef]

\* a.QueueChange(changeType, meta) for the FileMetadata object meta
QueueChangeMeta(changeType) ==
    LET id == Cardinality(accepted) + 1
        event == ChangeEvent(id, changeType, meta.ID, 0)
        r == PushOp(items, event)
    IN  /\ id <= MaxEvents
        /\ accepted' = accepted \cup {id}
        /\ items' = r.items
        /\ reported' = IF r.err # NoErr
                       THEN reported \cup {[id |-> id, msg |-> ReportQueueFull]}
                       ELSE reported
        /\ refs' = [refs EXCEPT ![id] =
                       [created |-> TRUE, nilMap |-> meta.VectorClock.isNil,
                        Metadata |-> meta, VectorClock |-> meta.VectorClock]]
        /\ UNCHANGED <<cfg, apc, batch, delivered, stopped, sent, alast,
                       restSnap>>

NextSnap ==
    \/ QueueChangeMeta(ChangeTypeUpdate)
    \/ \E r \in Replicas : IncrementClock(r)
    \/ \E self \in BOOLEAN : MergeClock(self)

--------------------------------------------------------------------------
(* Specifications: one component runs, the others stay as constructed *)

InitSpecClock ==
    InitClock /\ IdleQueue /\ IdleConc /\ IdleAgent /\ IdleCoord /\ IdleUpd /\ IdleRes
    /\ IdleReg /\ IdleLoop /\ IdleBcast /\ IdleSnap
SpecClock == InitSpecClock /\ [][NextClock]_vars

InitSpecQueue ==
    IdleClock /\ InitQueue /\ IdleConc /\ IdleAgent /\ IdleCoord /\ IdleUpd /\ IdleRes
    /\ IdleReg /\ IdleLoop /\ IdleBcast /\ IdleSnap
SpecQueue == InitSpecQueue /\ [][NextQueue]_vars

InitSpecConc == IdleClock /\ InitConc /\ IdleAgent /\ IdleCoord /\ IdleUpd /\ IdleRes
    /\ IdleReg /\ IdleLoop /\ IdleBcast /\ IdleSnap
SpecConc == InitSpecConc /\ [][NextConc]_vars

InitSpecAgent ==
    /\ IdleClock /\ IdleConc /\ InitAgent /\ IdleCoord /\ IdleUpd /\ IdleRes
    /\ IdleReg /\ IdleLoop /\ IdleBcast /\ IdleSnap
    /\ pushed = <<>> /\ popped = <<>> /\ cleared = <<>>
    /\ qlast = NoCall /\ prev = NoCall
SpecAgent == InitSpecAgent /\ [][NextAgent]_vars

\* the delivery goroutine is scheduled: Start's go statement runs, the loop
\* of the configured mode keeps taking the ready case of its select (the
\* default case of push mode, the ticker of batch and pull mode, stopCh),
\* and a syncEvent call returns
FairAgent ==
    /\ WF_vars(Start)
    /\ WF_vars(LoopExit)
    /\ WF_vars(PushModeStep)
    /\ WF_vars(BatchModeTick)
    /\ WF_vars(PullModeTick)
    /\ WF_vars(\E ok \in BOOLEAN : SyncEvent(ok))
SpecAgentLive == InitSpecAgent /\ [][NextAgent]_vars /\ FairAgent

InitSpecCoord ==
    /\ IdleClock /\ IdleQueue /\ IdleConc /\ IdleAgent /\ InitCoord /\ IdleUpd
    /\ IdleRes /\ IdleReg /\ IdleLoop /\ IdleBcast /\ IdleSnap
SpecCoord == InitSpecCoord /\ [][NextCoord]_vars

InitSpecUpd ==
    /\ IdleClock /\ IdleQueue /\ IdleConc /\ IdleAgent /\ InitUpd /\ IdleRes
    /\ IdleReg /\ IdleLoop /\ IdleBcast /\ IdleSnap
SpecUpd == InitSpecUpd /\ [][NextUpd]_vars

InitSpecRes ==
    /\ IdleClock /\ IdleQueue /\ IdleConc /\ IdleAgent /\ IdleCoord /\ IdleUpd
    /\ InitRes /\ IdleReg /\ IdleLoop /\ IdleBcast /\ IdleSnap
SpecRes == InitSpecRes /\ [][NextRes]_vars

InitSpecReg ==
    /\ IdleClock /\ IdleQueue /\ IdleConc /\ IdleAgent /\ IdleCoord /\ IdleUpd
    /\ IdleRes /\ InitReg /\ IdleLoop /\ IdleBcast /\ IdleSnap
SpecReg == InitSpecReg /\ [][NextReg]_vars

InitSpecDereg ==
    /\ IdleClock /\ IdleQueue /\ IdleConc /\ IdleAgent /\ InitCoord /\ IdleUpd
    /\ IdleRes /\ InitReg /\ IdleLoop /\ IdleBcast /\ IdleSnap
SpecDereg == InitSpecDereg /\ [][NextDereg]_vars

InitSpecRecon ==
    /\ IdleClock /\ IdleConc /\ InitAgent /\ InitCoord /\ IdleUpd
    /\ IdleRes /\ IdleReg /\ IdleLoop /\ IdleBcast /\ IdleSnap
    /\ cfg.MaxRetries = 1 /\ cfg.BatchSize = 1 /\ strategy = StrategyEager
    /\ pushed = <<>> /\ popped = <<>> /\ cleared = <<>>
    /\ qlast = NoCall /\ prev = NoCall
SpecRecon == InitSpecRecon /\ [][NextRecon]_vars

--------------------------------------------------------------------------
(* Properties of the vector clock, Detect and the file service (SpecClock) *)

Max(a, b) == IF a >= b THEN a ELSE b

InitSpecLoops ==
    /\ IdleClock /\ IdleQueue /\ IdleConc /\ IdleAgent /\ IdleCoord /\ IdleUpd
    /\ IdleRes /\ IdleReg /\ InitLoop /\ IdleBcast /\ IdleSnap
SpecLoops == InitSpecLoops /\ [][NextLoop]_vars

\* the loop goroutine is scheduled and the body of an iteration returns;
\* select chooses at random among its ready cases, so a case that is ready
\* at infinitely many selects is chosen; wg.Wait returns once the counter
\* is zero
FairLoop ==
    /\ WF_vars(WorkDone)
    /\ SF_vars(SelectStop)
    /\ WF_vars(StopReturn)
SpecLoopsLive == InitSpecLoops /\ [][NextLoop]_vars /\ FairLoop

InitSpecBcast ==
    /\ IdleClock /\ IdleQueue /\ IdleConc /\ IdleAgent /\ IdleUpd /\ IdleRes
    /\ IdleReg /\ IdleLoop /\ InitBcast /\ IdleSnap
SpecBcast == InitSpecBcast /\ [][NextBcast]_vars

InitSpecSnap ==
    /\ InitClock /\ IdleQueue /\ IdleConc /\ IdleAgent /\ IdleCoord /\ IdleUpd
    /\ IdleRes /\ IdleReg /\ IdleLoop /\ IdleBcast /\ IdleSnap
    /\ remote.ID = "f2" /\ remote.VectorClock \in EventClocks
SpecSnap == InitSpecSnap /\ [][NextSnap]_vars


\* C1: Detect(local, remote) returns a Conflict, with status pending and
\* FileID = local.ID, exactly when local's clock compared with remote's is
\* Concurrent; it returns nil for Before, After and Equal, whatever the ids
\* and versions of the two records are.
C1_DetectIffConcurrent ==
    last.op = "Detect" =>
        LET rel == CompareClock(last.local.VectorClock, last.remote.VectorClock)
        IN  /\ (~last.out.isNil) <=> (rel = ClockConcurrent)
            /\ rel \in {ClockBefore, ClockAfter, ClockEqual} => last.out.isNil
            /\ (~last.out.isNil) =>
                  /\ last.out.Status = "pending"
                  /\ last.out.FileID = last.local.ID

\* a conflict was detected between records whose ids differ
C1_Witness ==
    /\ last.op = "Detect"
    /\ ~last.out.isNil
    /\ last.local.ID # last.remote.ID

\* the inverse of a ClockRelation
Inverse(rel) ==
    IF rel = ClockBefore THEN ClockAfter
    ELSE IF rel = ClockAfter THEN ClockBefore
    ELSE rel

\* C2: for all clocks A and B, nil and empty ones included, A compared with B
\* is the inverse of B compared with A: Before against After, Equal against
\* Equal, Concurrent against Concurrent.
C2_CompareInverse ==
    last.op = "CompareClock" =>
        LET back == CompareClock(last.b, last.a)
        IN  /\ (last.out = ClockBefore) <=> (back = ClockAfter)
            /\ (last.out = ClockAfter) <=> (back = ClockBefore)
            /\ (last.out = ClockEqual) <=> (back = ClockEqual)
            /\ (last.out = ClockConcurrent) <=> (back = ClockConcurrent)

\* a nil clock was compared with an empty non-nil one
C2_Witness ==
    /\ last.op = "CompareClock"
    /\ last.a.isNil
    /\ last.b = MakeClock(EmptyMap)
    /\ last.out = ClockBefore

\* the reference comparison: over every replica, a missing key counting as 0
RefCompare(a, b) ==
    LET smaller == \E k \in Replicas : Get(a, k) < Get(b, k)
        greater == \E k \in Replicas : Get(a, k) > Get(b, k)
    IN  IF a.isNil /\ b.isNil THEN ClockEqual
        ELSE IF a.isNil THEN ClockBefore
        ELSE IF b.isNil THEN ClockAfter
        ELSE IF smaller /\ greater THEN ClockConcurrent
        ELSE IF smaller THEN ClockBefore
        ELSE IF greater THEN ClockAfter
        ELSE ClockEqual

\* C3: CompareClock agrees with the reference comparison for every pair of
\* clocks: Equal when no counter differs, Before when none is greater and one
\* is smaller, After when none is smaller and one is greater, Concurrent when
\* one is greater and another smaller; nil against non-nil is Before, non-nil
\* against nil is After, two nils are Equal.
C3_CompareMatchesReference ==
    last.op = "CompareClock" => last.out = RefCompare(last.a, last.b)

\* two clocks with different key sets compared as Concurrent
C3_Witness ==
    /\ last.op = "CompareClock"
    /\ last.out = ClockConcurrent
    /\ (~last.a.isNil) /\ (~last.b.isNil)
    /\ DOMAIN last.a.m # DOMAIN last.b.m

\* the element-wise maximum, Version untouched, and commutativity per key
MergeIsMax ==
    /\ \A k \in Replicas :
          Get(meta.VectorClock, k) =
              Max(Get(last.pre.VectorClock, k), Get(last.other, k))
    /\ meta.Version = last.pre.Version
    /\ \A k \in Replicas :
          Get(meta.VectorClock, k) =
              Get(MergeClockOp([last.pre EXCEPT !.VectorClock = last.other],
                               last.pre.VectorClock).VectorClock, k)

\* C4 as stated: MergeClock(other) leaves every key at the element-wise
\* maximum and Version unchanged; merging A into itself leaves A unchanged,
\* and merging A into B gives the same counters as merging B into A.
C4_MergeAsStated ==
    last.op = "MergeClock" =>
        /\ MergeIsMax
        /\ (last.other = last.pre.VectorClock) => (meta = last.pre)

\* C4 amended: as stated, except that merging A into itself leaves every
\* counter of A unchanged, and A itself unchanged when its clock is not nil:
\* a nil clock becomes an empty non-nil one.
C4_MergeAmended ==
    last.op = "MergeClock" =>
        /\ MergeIsMax
        /\ ~meta.VectorClock.isNil
        /\ (last.other = last.pre.VectorClock) =>
              /\ \A k \in Replicas :
                    Get(meta.VectorClock, k) = Get(last.pre.VectorClock, k)
              /\ (~last.pre.VectorClock.isNil) => (meta = last.pre)
              /\ last.pre.VectorClock.isNil =>
                    meta = [last.pre EXCEPT !.VectorClock = MakeClock(EmptyMap)]

\* a merge that raised one counter and kept another
C4_Witness ==
    /\ last.op = "MergeClock"
    /\ \E k \in Replicas : Get(last.other, k) > Get(last.pre.VectorClock, k)
    /\ \E k \in Replicas : Get(last.other, k) < Get(last.pre.VectorClock, k)

\* the record `post` is `pre` after one mutation by region r
OneMutation(pre, post, r) ==
    /\ Get(post.VectorClock, r) = Get(pre.VectorClock, r) + 1
    /\ \A k \in Replicas \ {r} :
          Get(post.VectorClock, k) = Get(pre.VectorClock, k)
    /\ post.Version = pre.Version + 1
    /\ post.Version > pre.Version

\* C5: every local mutation (IncrementClock(r), every successful Upload and
\* Delete by region r) raises VectorClock[r] by exactly one, leaves every
\* other counter unchanged and raises Version by exactly one, so Version
\* strictly increases; a failed Upload or Delete leaves the record as it was.
C5_MutationIncrements ==
    /\ last.op = "IncrementClock" => OneMutation(last.pre, meta, last.region)
    /\ (last.op = "Upload" /\ last.ok) =>
          OneMutation(NewFileMetadata(last.fileID), store[last.fileID], regionID)
    /\ (last.op = "Delete" /\ last.ok) =>
          OneMutation(last.pre, store[last.fileID], regionID)
    /\ (last.op \in {"Upload", "Delete"} /\ ~last.ok) =>
          store[last.fileID] = last.pre

\* a file was uploaded and then deleted by the region: Version 3, counter 2
C5_Witness ==
    /\ last.op = "Delete" /\ last.ok
    /\ store[last.fileID].Version = 3
    /\ Get(store[last.fileID].VectorClock, regionID) = 2
    /\ store[last.fileID].LocalState = LocalStateDeleted

--------------------------------------------------------------------------
(* Properties of one ChangeQueue (SpecQueue) *)

Min(a, b) == IF a <= b THEN a ELSE b

\* what has been pushed is what has been returned followed by what is queued
FifoHistory == (cleared = <<>>) => (pushed = popped \o items)

\* Pop returns the oldest event, or the nil sentinel leaving the queue as it was
PopTakesOldest ==
    qlast.op = "Pop" =>
        IF qlast.pre = <<>>
        THEN qlast.out = NilEvent /\ items = qlast.pre
        ELSE qlast.out = Head(qlast.pre) /\ items = Tail(qlast.pre)

\* PopN(n) returned the min(n, Len) oldest events and left the others
PopNTakesOldest ==
    LET count == Min(qlast.n, Len(qlast.pre))
    IN  /\ ~qlast.panic
        /\ qlast.out = SubSeq(qlast.pre, 1, count)
        /\ Len(qlast.out) = count
        /\ items = SubSeq(qlast.pre, count + 1, Len(qlast.pre))

\* C6 as stated: the queue is FIFO: the events returned by Pop and PopN in
\* call order are the pushed events in push order; PopN(n) returns the
\* min(n, Len) oldest events for every n; Pop on an empty queue returns the
\* nil sentinel and leaves the queue unchanged.
C6_FifoAsStated ==
    /\ FifoHistory
    /\ PopTakesOldest
    /\ qlast.op = "PopN" => PopNTakesOldest

\* C6 amended: as stated for every n >= 0; PopN(n) with n < 0 returns nothing
\* from an empty queue and panics on a non-empty one, the queue unchanged.
C6_FifoAmended ==
    /\ FifoHistory
    /\ PopTakesOldest
    /\ (qlast.op = "PopN" /\ qlast.n >= 0) => PopNTakesOldest
    /\ (qlast.op = "PopN" /\ qlast.n < 0) =>
          /\ items = qlast.pre
          /\ qlast.out = <<>>
          /\ qlast.panic <=> (qlast.pre # <<>>)

\* PopN asked for more than the two different events the queue held, after
\* an earlier Pop or PopN had returned something
C6_Witness ==
    /\ qlast.op = "PopN"
    /\ qlast.n > Len(qlast.pre)
    /\ Len(qlast.pre) = 2
    /\ qlast.pre[1] # qlast.pre[2]
    /\ qlast.out = qlast.pre
    /\ Len(popped) > 2

\* C7: Push on a queue holding maxSize events fails with queue-full and
\* leaves the contents unchanged; after one Pop from the full queue exactly
\* one further Push succeeds and the next fails again; always
\* 0 <= Len <= maxSize.
C7_PushBounded ==
    /\ 0 <= Len(items) /\ Len(items) <= maxSize
    /\ qlast.op = "Push" =>
          IF Len(qlast.pre) >= maxSize
          THEN qlast.err = ErrQueueFull /\ items = qlast.pre
          ELSE qlast.err = NoErr /\ items = Append(qlast.pre, qlast.event)
    /\ (qlast.op = "Push" /\ prev.op = "Pop" /\ prev.preLen = maxSize) =>
          qlast.err = NoErr
    /\ (qlast.op = "Push" /\ prev.op = "Push" /\ prev.ok
            /\ prev.preLen = maxSize - 1) =>
          qlast.err = ErrQueueFull

\* the queue was filled, one event was popped, one Push succeeded and the
\* next one failed
C7_Witness ==
    /\ qlast.op = "Push" /\ qlast.err = ErrQueueFull
    /\ prev.op = "Push" /\ prev.ok /\ prev.preLen = maxSize - 1
    /\ Len(popped) = 1 /\ cleared = <<>>
    /\ Len(pushed) = maxSize + 1

--------------------------------------------------------------------------
(* Properties of the ChangeQueue under concurrent callers (SpecConc) *)

\* how often event e occurs in the sequence q
Count(e, q) == Cardinality({i \in 1..Len(q) : q[i] = e})

\* C8: under any interleaving of concurrent Push, Pop, PopN, Len (and
\* Clear) calls by several goroutines, every successfully pushed event is
\* still in the queue or has been returned by exactly one Pop or PopN call,
\* or was discarded by Clear; nothing is queued or returned that was not
\* pushed.
C8_NoLossNoDuplicate ==
    /\ \A i \in 1..Len(pushed) :
          LET e == pushed[i]
          IN  /\ Count(e, items) + Count(e, popped) + Count(e, cleared) = 1
              /\ Count(e, popped) <= 1
              /\ (Count(e, items) = 0 /\ Count(e, popped) = 0) =>
                    Count(e, cleared) = 1
    /\ Len(items) + Len(popped) + Len(cleared) = Len(pushed)

\* one goroutine is inside its critical section while the other waits for
\* the mutex, after events were pushed and returned
C8_Witness ==
    /\ gpc["g1"] = "write" /\ gloc["g1"].op = "PopN"
    /\ gpc["g2"] = "lock" /\ gloc["g2"].op = "Push"
    /\ mu = "g1"
    /\ Len(items) = 2
    /\ popped # <<>>

--------------------------------------------------------------------------
(* Properties of the sync agent (SpecAgent) *)

\* the event with this id is in the sequence q
Holds(q, id) == \E i \in 1..Len(q) : q[i].ID = id

\* C9: when transmitting an event fails, the agent increments the event's
\* Attempts by one and re-enqueues it if the new Attempts < MaxRetries;
\* otherwise the event is not re-enqueued and the drop is reported.
C9_RetryAsStated ==
    alast.op = "handleSyncError" =>
        LET ev == [alast.event EXCEPT !.Attempts = @ + 1]
        IN  IF ev.Attempts < cfg.MaxRetries
            THEN alast.post = Append(alast.pre, ev)
            ELSE /\ alast.post = alast.pre
                 /\ ~Holds(alast.post, ev.ID)
                 /\ [id |-> ev.ID, msg |-> ReportDropped] \in reported

\* C10: every event accepted by QueueChange is at all times in the queue,
\* in transmission, delivered, or has had its loss reported.
C10_NoEventUnobserved ==
    \A id \in accepted :
        \/ Holds(items, id)
        \/ Holds(batch, id)
        \/ Holds(delivered, id)
        \/ \E r \in reported : r.id = id

\* every Attempts value the agent holds: of the queued events, of the events
\* in transmission, and of the event handleSyncError last incremented
AttemptsSeen ==
    {items[i].Attempts : i \in 1..Len(items)}
        \cup {batch[i].Attempts : i \in 1..Len(batch)}
        \cup (IF alast.op = "handleSyncError" THEN {alast.after.Attempts} ELSE {})

\* no event was transmitted more than n times or has Attempts above n
RetryBoundedBy(n) ==
    /\ \A id \in 1..MaxEvents : sent[id] <= n
    /\ \A a \in AttemptsSeen : a <= n

\* C11 as stated: for every configured MaxRetries, 0 and 1 included, no
\* event is transmitted more than MaxRetries times and its Attempts never
\* exceeds MaxRetries.
C11_RetryBoundedAsStated == RetryBoundedBy(cfg.MaxRetries)

\* C11 amended: no event is transmitted more than max(1, MaxRetries) times
\* and its Attempts never exceeds max(1, MaxRetries): with MaxRetries = 0 an
\* event is still transmitted once and its failure counted once before it is
\* dropped; with MaxRetries >= 1 the bound is MaxRetries itself.
C11_RetryBoundedAmended == RetryBoundedBy(Max(1, cfg.MaxRetries))

\* an event has failed MaxRetries >= 2 times, was transmitted that often,
\* and was dropped with the drop reported
C11_Witness ==
    /\ cfg.MaxRetries >= 2
    /\ alast.op = "handleSyncError"
    /\ alast.after.Attempts = cfg.MaxRetries
    /\ sent[alast.after.ID] = cfg.MaxRetries
    /\ [id |-> alast.after.ID, msg |-> ReportDropped] \in reported

\* C12: in every delivery mode (push, batch, pull), an event that QueueChange
\* put in the queue is eventually popped and handed to transmission, unless
\* the agent is stopped.
C12_DrainedInEveryMode ==
    \A id \in 1..MaxEvents :
        Holds(items, id) ~> (Holds(batch, id) \/ stopped)

--------------------------------------------------------------------------
(* The file service and the region's ChangeQueue (SpecClock) *)

\* the queued events of this type for this file
QueuedFor(type, fileID) ==
    {i \in 1..Len(items) : items[i].Type = type /\ items[i].FileID = fileID}

\* C13: every successful Upload or Delete advances the file's vector clock
\* and leaves exactly one ChangeEvent of the matching type (CREATE, DELETE)
\* for that file in the region's ChangeQueue.
C13_MutationEnqueues ==
    (last.op \in {"Upload", "Delete"} /\ last.ok) =>
        LET type == IF last.op = "Upload" THEN ChangeTypeCreate
                    ELSE ChangeTypeDelete
            before == IF last.pre = NoMeta THEN 0
                      ELSE Get(last.pre.VectorClock, regionID)
        IN  /\ Get(store[last.fileID].VectorClock, regionID) = before + 1
            /\ Cardinality(QueuedFor(type, last.fileID)) = 1

--------------------------------------------------------------------------
(* Properties of the coordinator (SpecCoord) *)

\* the step is a HandleChange call for an event of this type
HandleChangeStep(type) ==
    /\ nchanges' = nchanges + 1
    /\ clast'.op = "HandleChange"
    /\ clast'.event.Type = type

\* C14: an UPDATE handled by the coordinator fails with the conflict error
\* exactly when the clock stored for the file id is Concurrent with the
\* incoming clock, and then the stored metadata is left unchanged.
C14_UpdateConflict ==
    [][HandleChangeStep(ChangeTypeUpdate) =>
        LET m == clast'.event.Metadata
            stored == gstore[m.ID]
            concurrent ==
                /\ stored # NoMeta
                /\ CompareClock(stored.VectorClock, m.VectorClock)
                       = ClockConcurrent
        IN  /\ (clast'.err = ErrConflict) <=> concurrent
            /\ clast'.err = ErrConflict => gstore' = gstore]_vars

\* an UPDATE was refused with the conflict error: the stored clock and the
\* event's clock are concurrent
C14_Witness ==
    /\ clast.op = "HandleChange"
    /\ clast.event.Type = ChangeTypeUpdate
    /\ clast.err = ErrConflict
    /\ gstore[clast.event.FileID] # NoMeta
    /\ CompareClock(gstore[clast.event.FileID].VectorClock,
                    clast.event.Metadata.VectorClock) = ClockConcurrent

\* the step is a HandleChange call that returned nil
HandleChangeOk ==
    /\ nchanges' = nchanges + 1
    /\ clast'.op = "HandleChange"
    /\ clast'.err = NoErr

\* the pending lists after the event was appended once to the list of every
\* registered region other than its origin
FannedOut(rs, event) ==
    [r \in Regions |->
        IF rs[r].registered /\ r # event.RegionID
        THEN RegionState(Append(rs[r].PendingEvents, event))
        ELSE rs[r]]

\* C15: under the eager strategy a successful HandleChange(event) appends the
\* event exactly once to the pending list of every registered region other
\* than event.RegionID and nothing to the originating region's list, for any
\* set of registered regions.
C15_EagerFanOut ==
    [][(HandleChangeOk /\ strategy = StrategyEager) =>
        regions' = FannedOut(regions, clast'.event)]_vars

\* the number of times the event with this id is in the sequence q
Occurrences(q, id) == Cardinality({i \in 1..Len(q) : q[i].ID = id})

\* eager fan-out with the origin and two other regions registered: the event
\* is once in the list of each of the two others and not in the origin's
C15_Witness ==
    /\ strategy = StrategyEager
    /\ clast.op = "HandleChange" /\ clast.err = NoErr
    /\ \A r \in Regions : regions[r].registered
    /\ \A r \in Regions :
          Occurrences(regions[r].PendingEvents, clast.event.ID)
              = IF r = clast.event.RegionID THEN 0 ELSE 1
    /\ \E r \in Regions : Len(regions[r].PendingEvents) = 2

\* C16: under the lazy and on_demand strategies an event accepted by
\* HandleChange accumulates for the other registered regions (and is then
\* returned by the next GetPendingChanges of each of them).
C16_LazyAccumulates ==
    [][(HandleChangeOk /\ strategy \in {StrategyLazy, StrategyOnDemand}) =>
        regions' = FannedOut(regions, clast'.event)]_vars

\* C17: GetPendingChanges(region) is a destructive drain: it returns the
\* region's whole pending list in queue order and leaves the list empty; two
\* consecutive calls for one region return the batch once and then an empty
\* result; no pending event is ever returned by two calls.
C17_DestructiveDrain ==
    /\ [][clast'.op = "GetPendingChanges" =>
            LET r == clast'.region
            IN  /\ clast'.ok = regions[r].registered
                /\ clast'.out = regions[r].PendingEvents
                /\ regions' = IF regions[r].registered
                              THEN [regions EXCEPT ![r] = RegionState(<<>>)]
                              ELSE regions
                /\ (clast.op = "GetPendingChanges" /\ clast.region = r)
                       => clast'.out = <<>>]_vars
    /\ [](~twice)

\* a call returned a batch of two events, oldest first, and left the list
\* empty
C17_Witness ==
    /\ clast.op = "GetPendingChanges"
    /\ Len(clast.out) = 2
    /\ clast.out[1].ID < clast.out[2].ID
    /\ regions[clast.region] = RegionState(<<>>)
    /\ returned[clast.region] = {clast.out[1].ID, clast.out[2].ID}

\* C18: global metadata is never physically deleted: after the coordinator
\* handled a DELETE for a registered file id, Get still returns a record, a
\* tombstone with LocalState = deleted; a file id once registered stays in
\* the store.
C18_NeverPhysicallyDeleted ==
    /\ \A f \in everReg : GetOp(gstore, f).err = NoErr
    /\ (/\ clast.op = "HandleChange"
        /\ clast.event.Type = ChangeTypeDelete
        /\ clast.err = NoErr)
        => /\ GetOp(gstore, clast.event.FileID).err = NoErr
           /\ GetOp(gstore, clast.event.FileID).meta.LocalState
                  = LocalStateDeleted

--------------------------------------------------------------------------
(* Properties of concurrent Update calls (SpecUpd) *)

\* C19: concurrent Update calls for one file id are serialized with respect
\* to the clock check: of two Updates whose clocks are Concurrent with each
\* other, run in any interleaving against the same stored version, at most
\* one succeeds and the other fails with the conflict error; never do both
\* overwrite the stored metadata.
C19_UpdatesSerialized ==
    (/\ \A g \in Goroutines : upc[g] = "done"
     /\ CompareClock(uloc["g1"].meta.VectorClock, uloc["g2"].meta.VectorClock)
            = ClockConcurrent)
        => \E g \in Goroutines : uloc[g].err = ErrConflict

--------------------------------------------------------------------------
(* Properties of the conflict resolver (SpecRes) *)

\* C20: last-writer-wins resolution returns as Result the version with the
\* later UpdatedAt and as Rejected the other one, for either order of the two
\* timestamps, and sets the conflict's status to resolved.
C20_LaterWriterWins ==
    (/\ rlast.op = "Resolve"
     /\ rlast.resolution.Strategy = StrategyLWW
     /\ rlast.pre.LocalVersion.UpdatedAt # rlast.pre.RemoteVersion.UpdatedAt)
        => LET l == rlast.pre.LocalVersion
               r == rlast.pre.RemoteVersion
               later == IF l.UpdatedAt > r.UpdatedAt THEN l ELSE r
               other == IF l.UpdatedAt > r.UpdatedAt THEN r ELSE l
           IN  /\ rlast.resolution.Result = later
               /\ rlast.resolution.Rejected = other
               /\ conflict.Status = "resolved"
               /\ rlast.err = NoErr

\* last-writer-wins resolved a pending conflict whose local version is the
\* later one: the local version won
C20_Witness ==
    /\ rlast.op = "Resolve"
    /\ rlast.resolution.Strategy = StrategyLWW
    /\ rlast.pre.Status = "pending"
    /\ rlast.pre.LocalVersion.UpdatedAt > rlast.pre.RemoteVersion.UpdatedAt
    /\ rlast.resolution.Result.Name = "local.txt"
    /\ rlast.resolution.Rejected.Name = "remote.txt"
    /\ conflict.Status = "resolved"

\* the last call was a Resolve that resolved by this strategy
Resolved(strat) ==
    rlast.op = "Resolve" /\ rlast.resolution.Strategy = strat

\* C21: when the two versions of a conflict have exactly equal UpdatedAt,
\* last-writer-wins selects the Local version as the winner and returns the
\* Remote version as Rejected.
C21_TieLocalWins ==
    (/\ Resolved(StrategyLWW)
     /\ rlast.pre.LocalVersion.UpdatedAt = rlast.pre.RemoteVersion.UpdatedAt)
        => /\ rlast.resolution.Result = rlast.pre.LocalVersion
           /\ rlast.resolution.Rejected = rlast.pre.RemoteVersion

\* C22: with the manual strategy, Resolve sets the conflict's status to
\* escalated and returns no automatic result.
C22_ManualEscalates ==
    Resolved(StrategyManual) =>
        /\ conflict.Status = "escalated"
        /\ rlast.resolution.Result = NoMeta

\* C23: a resolved or escalated status is terminal: a Resolve call on a
\* conflict that has left status pending produces no second Resolution and
\* changes neither its status nor its winner.
C23_ResolvedIsTerminal ==
    /\ nres <= 1
    /\ (rlast.op = "Resolve" /\ rlast.pre.Status # "pending") =>
           conflict = rlast.pre

C25_ForkIsNewEntity ==
    Resolved(StrategyFork) =>
        LET primary == rlast.pre.LocalVersion
            forked == rlast.resolution.Result
            st == [f \in {primary.ID, forked.ID} |->
                      IF f = primary.ID THEN primary ELSE NoMeta]
        IN  /\ forked.ID # primary.ID
            /\ RegisterOp(st, forked).err = NoErr


\* a step of the registry in which the named method ran
RegistryStep(op) == glast'.op = op /\ now' = now /\ UNCHANGED restReg

\* the time since the region was last seen, as checkHealth computes it
Elapsed(id) == now - reg[id].LastSeenAt

\* C26: when the health check runs, a registered region last seen more than
\* degradedThreshold but at most offlineThreshold ago whose state was healthy
\* becomes degraded (still active, no longer healthy), a region last seen
\* more than offlineThreshold ago becomes offline whatever its state was
\* (no longer active), and a region seen within degradedThreshold is left as
\* it was; GetRegion reports the state the check stored
C26_HealthThresholds ==
    [][RegistryStep("checkHealth") =>
        \A id \in RegIDs :
            reg[id] # NoRegion =>
                LET got == GetRegionOp(reg', id).region.Status.State
                IN  /\ Elapsed(id) > offlineThreshold =>
                        /\ got = StateOffline
                        /\ id \notin GetActiveRegions(reg')
                    /\ (/\ Elapsed(id) > degradedThreshold
                        /\ Elapsed(id) <= offlineThreshold
                        /\ reg[id].Status.State = StateHealthy) =>
                        /\ got = StateDegraded
                        /\ id \in GetActiveRegions(reg')
                        /\ id \notin GetHealthyRegions(reg')
                    /\ Elapsed(id) <= degradedThreshold =>
                        reg'[id] = reg[id]]_vars

\* the check has run with one region that registered healthy now offline,
\* past the offline threshold, and the other degraded between the thresholds
C26_Witness ==
    /\ glast.op = "checkHealth"
    /\ \E a, b \in RegIDs :
        /\ reg[a] # NoRegion /\ reg[b] # NoRegion
        /\ reg[a].Status = RegionStatus(StateOffline, 0, reg[a].JoinedAt)
        /\ Elapsed(a) > offlineThreshold
        /\ reg[b].Status = RegionStatus(StateDegraded, 0, reg[b].JoinedAt)
        /\ Elapsed(b) > degradedThreshold /\ Elapsed(b) <= offlineThreshold

\* C27: a region's state becomes healthy only in a Heartbeat or Register
\* step for that region; a health check leaves each region's state as it
\* was, or moves it from healthy to degraded, or moves it to offline
C27_NoAutomaticHealing ==
    [][/\ \A id \in RegIDs :
            (/\ reg'[id] # NoRegion
             /\ reg'[id].Status.State = StateHealthy
             /\ (reg[id] = NoRegion \/ reg[id].Status.State # StateHealthy)) =>
                /\ glast'.op \in {"Heartbeat", "Register"}
                /\ glast'.region = id
       /\ RegistryStep("checkHealth") =>
            \A id \in RegIDs :
                reg[id] # NoRegion =>
                    \/ reg'[id] = reg[id]
                    \/ /\ reg[id].Status.State = StateHealthy
                       /\ reg'[id] =
                            [reg[id] EXCEPT !.Status.State = StateDegraded]
                    \/ reg'[id] =
                            [reg[id] EXCEPT !.Status.State = StateOffline]]_vars

\* the check has run and left one region, whose heartbeat of this minute
\* reported degraded, degraded, and the other, which it had marked offline,
\* offline
C27_Witness ==
    /\ glast.op = "checkHealth"
    /\ \E a, b \in RegIDs :
        /\ reg[a] # NoRegion /\ reg[b] # NoRegion
        /\ reg[a].Status.State = StateDegraded /\ reg[a].Status.SyncLag = 5
        /\ Elapsed(a) <= degradedThreshold
        /\ reg[b].Status.State = StateOffline /\ reg[b].Status.SyncLag = 0

\* C28 as stated: a Heartbeat for a registered region sets LastSeenAt to now
\* and stores the reported status as it was reported; for a region that is
\* not registered it returns not-found and changes no entry
C28_HeartbeatVerbatim ==
    [][RegistryStep("Heartbeat") =>
        LET id == glast'.region
        IN  IF reg[id] # NoRegion
            THEN /\ glast'.err = NoErr
                 /\ reg'[id].LastSeenAt = now
                 /\ reg'[id].Status = glast'.status
            ELSE /\ glast'.err = ErrNotFound
                 /\ reg' = reg]_vars

\* C28 amended: a Heartbeat for a registered region sets LastSeenAt to now
\* and stores the reported status, the self-reported state included, except
\* its LastCheckAt, which becomes now; so a heartbeat reporting healthy makes
\* a degraded or offline region healthy at once; nothing else of the entry
\* and no other entry changes; for a region that is not registered it
\* returns not-found and changes no entry
C28_HeartbeatOverwrites ==
    [][RegistryStep("Heartbeat") =>
        LET id == glast'.region
        IN  IF reg[id] # NoRegion
            THEN /\ glast'.err = NoErr
                 /\ reg'[id].LastSeenAt = now
                 /\ reg'[id].Status =
                        [glast'.status EXCEPT !.LastCheckAt = now]
                 /\ reg'[id].JoinedAt = reg[id].JoinedAt
                 /\ glast'.status.State = StateHealthy =>
                        id \in GetHealthyRegions(reg')
                 /\ \A o \in RegIDs \ {id} : reg'[o] = reg[o]
            ELSE /\ glast'.err = ErrNotFound
                 /\ reg' = reg]_vars

\* a heartbeat reporting healthy has just been stored for a region that
\* joined longer ago than the offline threshold, with a LastCheckAt that is
\* not the reported one, while the other region is not registered
C28_Witness ==
    /\ glast.op = "Heartbeat" /\ glast.err = NoErr
    /\ glast.status.State = StateHealthy
    /\ reg[glast.region].Status.State = StateHealthy
    /\ reg[glast.region].LastSeenAt = now
    /\ now - reg[glast.region].JoinedAt > offlineThreshold
    /\ reg[glast.region].Status.LastCheckAt # glast.status.LastCheckAt
    /\ \E o \in RegIDs : reg[o] = NoRegion

\* C29: Register of a region id that is not registered succeeds and stores
\* it healthy, joined and last seen now, so that it is in GetActiveRegions
\* and in GetHealthyRegions; Register of a registered id fails with
\* already-exists and changes no entry; after a Deregister that succeeds the
\* region is in neither list, and a Deregister of an id that is not
\* registered fails with not-found
C29_RegisterDeregister ==
    [][/\ RegistryStep("Register") =>
            LET id == glast'.region
            IN  IF reg[id] = NoRegion
                THEN /\ glast'.err = NoErr
                     /\ reg'[id] =
                            RegionInfo(RegionStatus(StateHealthy, 0, now),
                                       now, now)
                     /\ id \in GetActiveRegions(reg')
                     /\ id \in GetHealthyRegions(reg')
                ELSE /\ glast'.err = ErrAlreadyExists
                     /\ reg' = reg
       /\ RegistryStep("Deregister") =>
            LET id == glast'.region
            IN  /\ glast'.err = (IF reg[id] = NoRegion THEN ErrNotFound
                                 ELSE NoErr)
                /\ id \notin GetActiveRegions(reg')
                /\ id \notin GetHealthyRegions(reg')
                /\ GetRegionOp(reg', id).err = ErrNotFound]_vars

\* a second Register of a region has just failed with already-exists and
\* the entry still has the join time and the degraded state it had
C29_Witness ==
    /\ glast.op = "Register" /\ glast.err = ErrAlreadyExists
    /\ reg[glast.region].JoinedAt < now
    /\ reg[glast.region].Status.State = StateDegraded

\* C30: once a region has been deregistered, the events that were pending
\* for it are gone: a GetPendingChanges for a region id that the registry
\* does not know returns no event
C30_DeregisterDiscardsPending ==
    [][(/\ clast'.op = "GetPendingChanges"
        /\ UNCHANGED varsReg
        /\ reg[clast'.region] = NoRegion
        /\ glast.op = "Deregister" /\ glast.err = NoErr
        /\ glast.region = clast'.region) =>
            clast'.out = <<>>]_vars

\* C31: once a loop has been started and Stop has closed stopCh or the
\* context has been cancelled, the loop eventually exits, whichever of the
\* five loop functions it is; Stop has returned only when the loop has
\* exited, and a Stop that waits eventually returns
C31_LoopsExit ==
    /\ [](spc = "returned" => lpc = "exited")
    /\ (lpc # "new" /\ (stopCh \/ ctxDone)) ~> (lpc = "exited")
    /\ (spc = "wait") ~> (spc = "returned")

\* Stop has returned for a ticker loop that exited with a tick still
\* waiting in the ticker's channel
C31_Witness ==
    /\ spc = "returned" /\ lpc = "exited" /\ wg = 0
    /\ loop \in TickerLoops /\ tick /\ ~ctxDone

\* the region has nothing left to send: its queue is empty, no event is in
\* transmission, and the event it transmitted last was a CREATE of the file
Settled(fileID) ==
    /\ items = <<>> /\ batch = <<>>
    /\ delivered # <<>>
    /\ delivered[Len(delivered)].Type = ChangeTypeCreate
    /\ delivered[Len(delivered)].FileID = fileID

\* C32: replicas converge: once the region's writes have stopped and its
\* transmissions have succeeded, the coordinator's metadata eventually holds
\* the file the region created last
C32_ReplicasConverge ==
    \A f \in CoordFiles : Settled(f) ~> (~Settled(f) \/ gstore[f] # NoMeta)

\* the changes of other regions that the coordinator holds for this region
\* and that touch the file
RemoteChanges(fileID) ==
    {i \in 1..Len(regions[regionID].PendingEvents) :
        regions[regionID].PendingEvents[i].FileID = fileID}

\* C33: the agent pushes a local change of a file only when no change of
\* that file by another region is waiting for it at the coordinator, that
\* is after it has pulled the coordinator's changes and resolved the
\* conflicts between them and its queued changes
C33_ResolveBeforePush ==
    [][delivered' # delivered =>
        RemoteChanges(delivered'[Len(delivered')].FileID) = {}]_vars

\* C34: when the concurrent HandleChange calls have returned, every
\* registered region has in its pending list, or has been handed by
\* GetPendingChanges, every accepted event that another region originated
C34_NoLostFanOut ==
    (\A g \in Goroutines : bpc[g] = "done") =>
        \A g \in Goroutines, r \in Regions :
            (/\ bloc[g].err = NoErr
             /\ regions[r] # NotRegistered
             /\ r # bloc[g].event.RegionID) =>
                bloc[g].event.ID
                    \in IDs(regions[r].PendingEvents) \cup returned[r]

\* C35: the events of the region are transmitted successfully in the order
\* in which QueueChange accepted them (event ids are given in that order),
\* whatever transmissions failed and were retried in between
C35_OrderAcrossRetries ==
    \A i, j \in 1..Len(delivered) :
        i < j => delivered[i].ID < delivered[j].ID

\* the error the metadata step has for this event against this store
ExpectedErr(st, event) ==
    LET known == st[event.FileID] # NoMeta
    IN  CASE event.Type = ChangeTypeCreate /\ known -> ErrAlreadyExists
          [] event.Type = ChangeTypeUpdate /\ ~known -> ErrNotFound
          [] event.Type = ChangeTypeDelete /\ ~known -> ErrNotFound
          [] event.Type = ChangeTypeUpdate /\ known
                /\ CompareClock(st[event.FileID].VectorClock,
                                event.Metadata.VectorClock) = ClockConcurrent
                -> ErrConflict
          [] OTHER -> NoErr

\* C36: HandleChange returns already-exists for a CREATE of a known file
\* id, not-found for an UPDATE or DELETE of an unknown one, conflict for an
\* UPDATE whose clock is concurrent with the stored one, and nil otherwise;
\* when it returns an error the metadata store and every region's pending
\* list are as they were
C36_FailedChangeHasNoEffect ==
    [][(nchanges' = nchanges + 1 /\ clast'.op = "HandleChange") =>
        /\ clast'.err = ExpectedErr(gstore, clast'.event)
        /\ clast'.err # NoErr => gstore' = gstore /\ regions' = regions]_vars

\* under the eager strategy, with a region other than the origin
\* registered, a CREATE of a file the store holds has just failed with
\* already-exists and is in no pending list
C36_Witness ==
    /\ strategy = StrategyEager
    /\ clast.op = "HandleChange" /\ clast.err = ErrAlreadyExists
    /\ gstore[clast.event.FileID] # NoMeta
    /\ \E r \in Regions \ {clast.event.RegionID} : regions[r].registered
    /\ \A r \in Regions : clast.event.ID \notin IDs(regions[r].PendingEvents)

\* C37: the clock the coordinator stores for a file never goes backwards:
\* when a HandleChange replaces the stored metadata of a file, the new
\* clock compares After or Equal to the clock it replaced
C37_StoredClockMonotonic ==
    [][\A f \in CoordFiles :
        (gstore[f] # NoMeta /\ gstore'[f] # NoMeta /\ gstore'[f] # gstore[f]) =>
            CompareClock(gstore'[f].VectorClock, gstore[f].VectorClock)
                \in {ClockAfter, ClockEqual}]_vars

\* C38: an event leaves the pending list of a registered region only in a
\* GetPendingChanges or an UnregisterRegion step; RegisterRegion of a
\* region that is registered and the staleness maintenance task leave the
\* list as it was
C38_PendingOnlyDrained ==
    [][\A r \in Regions :
        (/\ regions[r].registered
         /\ IDs(regions[r].PendingEvents)
                \ IDs(regions'[r].PendingEvents) # {}) =>
            clast'.op \in {"GetPendingChanges", "UnregisterRegion"}]_vars

\* C39: a queued ChangeEvent is a snapshot: the vector clock and the
\* metadata it carries are the ones the source metadata had when QueueChange
\* created the event, whatever IncrementClock and MergeClock did to the
\* source metadata afterwards
C39_EventIsSnapshot ==
    \A i \in 1..Len(items) :
        /\ EventVectorClock(items[i].ID) = refs[items[i].ID].VectorClock
        /\ EventMetadata(items[i].ID) = refs[items[i].ID].Metadata

\* C40: in every reachable state of the registry the state of every
\* registered region is healthy, degraded or offline
C40_StateIsOneOfThree ==
    \A id \in RegIDs :
        reg[id] # NoRegion =>
            reg[id].Status.State \in {StateHealthy, StateDegraded, StateOffline}

==========================================================================
